---- MODULE Spec2Model ----
(***************************************************************************)
(* A model of the chat-log extraction of chzzk-timeline:                   *)
(* _upload_chatlog_to_s3 (src/infra/lambda/extract-chat-from-video.py),    *)
(* the paginated fetch loop that normalizes each chat record into a line,  *)
(* buffers the lines and streams them to S3 as a multipart upload.         *)
(*                                                                         *)
(* Byte strings are sequences of small integers.  Sizes are counted in     *)
(* units of 1/UnitsPerMiB MiB, so a part size of 5 MiB is                  *)
(* 5 * UnitsPerMiB elements.                                               *)
(*                                                                         *)
(* Ten programs are modelled , each as a specification of its own over     *)
(* its own variables (the variables of the others stay at their idle       *)
(* values):                                                                *)
(*   Spec         handler and _upload_chatlog_to_s3                        *)
(*   SpecRequest  _request (src/list_replays.py)                           *)
(*   SpecBot      fetch_and_save_chat_data (src/bot-replays-chat.py)       *)
(*   SpecQueue    handler (src/workflows/lambda/queueing-videos.py)        *)
(*   SpecNormalize  the body of the record loop of _upload_chatlog_to_s3   *)
(*                  and _safe_nickname, on one record                      *)
(*   SpecRace     two concurrent runs of _upload_chatlog_to_s3 on one key  *)
(*   SpecList     list_replays_all (src/list_replays.py)                   *)
(*   SpecProcess  process_replays_chat (src/bot-replays-chat.py)           *)
(*   SpecParallel run_parallel_with_progress                               *)
(*                (src/chzzk-chat/llm-chat-event.py)                       *)
(*   SpecHandler  handler of extract-chat-from-video.py: the reading of    *)
(*                the work item, up to the call of _upload_chatlog_to_s3   *)
(***************************************************************************)
EXTENDS Integers, Sequences, FiniteSets, TLC

(***************************************************************************)
(* Bounds of the model.                                                    *)
(***************************************************************************)
\* elements of a model byte string per MiB
UnitsPerMiB == 1
\* records in one served page
MaxPageLen == 2
\* page requests a run may issue before the model stops serving
MaxRequests == 3
\* pages with records served to each of two concurrent runs
RaceMaxPages == 2
\* part size of two concurrent runs, in elements of a model byte string
RacePartSize == 2
\* size of list_replays_all: the videos of a full page
ListSize == 2
\* the largest max_pages list_replays_all is called with
MaxListPagesArg == 2
\* pages the replay list of a channel is served for
MaxListRequests == 3
\* channels of the filtered replays JSON
MaxChannels == 2
\* items handed to run_parallel_with_progress
MaxItems == 3
\* largest explicit CHZZK_MAX_PAGES value tried
MaxPagesCfg == 2

(***************************************************************************)
(* Program constants.                                                      *)
(***************************************************************************)
\* _env_int("CHZZK_MAX_PAGES", 5000)
DefaultMaxPages == 5000
\* _env_int("CHATLOG_PART_SIZE_MB", 8)
DefaultPartSizeMB == 8
\* max(part_size_mb, 5)
MinPartSizeMB == 5
\* data.get("code") != 200
CodeOK == 200

None == "<None>"

Max(a, b) == IF a >= b THEN a ELSE b

(***************************************************************************)
(* Environment settings: unset, blank, not an integer, or an integer.      *)
(***************************************************************************)
EnvUnset == [kind |-> "unset", val |-> 0]
EnvBlank == [kind |-> "blank", val |-> 0]
EnvBad   == [kind |-> "bad", val |-> 0]
EnvOf(n) == [kind |-> "int", val |-> n]

\* a variant in which int(raw) accepts every text
EnvIntRaises_Never(raw) == FALSE

\* _env_int: the default when unset or blank, the integer when it parses;
\* EnvIntRaises tells when int(raw) raises ValueError.
EnvIntRaises(raw) == raw.kind = "bad"

EnvInt(raw, default) ==
    IF raw.kind \in {"unset", "blank"} THEN default ELSE raw.val

PartSizeEnvs ==
    {EnvUnset, EnvBlank, EnvBad} \cup {EnvOf(n) : n \in {-1, 0, 3, 5}}

MaxPagesEnvs ==
    {EnvUnset, EnvBad} \cup {EnvOf(n) : n \in 0..MaxPagesCfg}

\* CHZZK_TIMEOUT_SEC and CHZZK_PAGE_DELAY_MS
OtherIntEnvs == {EnvUnset, EnvBlank, EnvBad, EnvOf(1)}

\* an off-by-floor variant: the configured value is used as it is
PartSizeOf_NoFloor(raw) ==
    EnvInt(raw, DefaultPartSizeMB) * UnitsPerMiB

\* part_size = max(part_size_mb, 5) * 1024 * 1024
PartSizeOf(raw) ==
    Max(EnvInt(raw, DefaultPartSizeMB), MinPartSizeMB) * UnitsPerMiB

(***************************************************************************)
(* Records and their normalized lines.  A record is known by its kind:     *)
(*   "A", "B"  a dict with a numeric messageTime: one line each            *)
(*   "D"       a dict whose messageTime is missing or not numeric: dropped *)
(*   "N"       not a dict: skipped, as "D" is (served only as a whole      *)
(*             page of its own, SkippedPage)                               *)
(*   "X"       a numeric messageTime outside the range of                  *)
(*             datetime.fromtimestamp, which raises                        *)
(***************************************************************************)
RecordKinds == {"A", "B", "D", "X"}

\* isinstance(chat, dict)
IsDict(r) == r # "N"

\* float(message_time) succeeds
HasNumericTime(r) == r \in {"A", "B", "X"}

\* datetime.fromtimestamp(timestamp, kst) raises
TimeOutOfRange(r) == r = "X"

\* the encoded line of a record that yields one
LineOf(r) == IF r = "A" THEN <<1, 2>> ELSE <<3, 4, 5>>

SkippedPage == <<"N">>

\* the pages served: up to MaxPageLen records; a record that raises ends the
\* run, so none is served behind it
Pages ==
    {p \in UNION {[1..n -> RecordKinds] : n \in 0..MaxPageLen} :
        \A i \in 1..Len(p) : TimeOutOfRange(p[i]) => i = Len(p)}
      \cup {SkippedPage}

\* a record that yields a line
Survives(r) == IsDict(r) /\ HasNumericTime(r) /\ ~TimeOutOfRange(r)

\* the lines a whole page contributes, one per surviving record, in record order
RECURSIVE NormalizedLines(_)
NormalizedLines(page) ==
    IF page = <<>> THEN <<>>
    ELSE (IF Survives(Head(page)) THEN <<LineOf(Head(page))>> ELSE <<>>)
             \o NormalizedLines(Tail(page))

\* the bytes of a sequence of lines
RECURSIVE Flatten(_)
Flatten(ls) == IF ls = <<>> THEN <<>> ELSE Head(ls) \o Flatten(Tail(ls))

(***************************************************************************)
(* Cursors.  The page carries nextPlayerMessageTime, absent (None) or a    *)
(* value that str(...).strip() turns into the next cursor.                 *)
(***************************************************************************)
RawCursors == {None, "", " ", "0", "1", " 1 "}

StrStrip(raw) ==
    CASE raw = " "   -> ""
      [] raw = " 1 " -> "1"
      [] OTHER       -> raw

\* what the loop reads of a response when it arrives: the code and the records
\* (content.nextPlayerMessageTime is read at the end of the page, see EndPage)
Responses ==
    [code : {CodeOK}, chats : Pages]
        \cup {[code |-> 500, chats |-> <<>>], [code |-> 500, chats |-> <<"A">>]}

VARIABLES
    pc,             \* position of the run in _upload_chatlog_to_s3
    err,            \* the exception propagating out of the try body, or "none"
    part_size,      \* effective part size
    env_ok,         \* "unread", or whether every integer setting read is one
    max_pages,      \* CHZZK_MAX_PAGES
    cursor,         \* next_player_message_time
    last_next,      \* last_next
    pages,          \* pages
    lines,          \* lines
    total_bytes,    \* total_bytes
    upload_id,      \* upload_id: None or the session's id
    parts,          \* parts: the committed {ETag, PartNumber} list
    buffer,         \* buffer
    part_number,    \* part_number
    chats,          \* records of the current page not yet processed
    session,        \* S3: "none", "open", "aborted" or "completed"
    uploaded,       \* S3: part number -> body of the open session's parts
    dest,           \* S3: the object at (bucket, key)
    dest0,          \* the object at (bucket, key) before the run
    fetched,        \* the lines of every record served so far, in arrival order
    cleanup,        \* what the except clause did: "none", "skipped", "aborted"
                    \* or "abort_failed"
    calls,          \* how many times each outbound call has been issued
    stallReq,       \* the request whose page returned its own cursor, or 0
    loopParts,      \* parts committed inside the page loop
    stop,           \* what ends the page loop: the "code" or the "empty"
                    \* record list of the last response, the cursor, or "none"
    \* _request (list_replays.py)
    rq_pc,          \* position of the call in _request
    max_retries,    \* max_retries
    backoff,        \* backoff, in tenths of a second
    attempt,        \* attempt
    response,       \* r: the last response (status_code and body code)
    rq_err,         \* the exception leaving _request, or "none"
    rq_calls,       \* SESSION.get calls issued
    waits,          \* the time.sleep calls made, in order
    \* fetch_and_save_chat_data (bot-replays-chat.py)
    bot_pc,         \* position of the call in fetch_and_save_chat_data
    file,           \* the file chatLog-<video_no>.log on disk
    file0,          \* the file when the current call began
    bot_chats,      \* records of the current page not yet written
    bot_requests,   \* requests.get calls issued by the current call
    outcome,        \* how the current call ended, or "none"
    prev,           \* how the call before the current one ended, or "none"
    runs,           \* calls made for the video so far, the current one included
    bot_cursor,     \* next_player_message_time
    bot_stall,      \* bot_requests when a page repeated its cursor, or 0
    \* handler (queueing-videos.py)
    q_pc,           \* position of the invocation in handler
    q_err,          \* the exception leaving handler, or "none"
    chatlists,      \* the manifest read from S3
    channels,       \* the replays of the channels JSON downloaded
    recent_days,    \* recent_days
    have_ids,       \* have_ids
    all_video_ids,  \* all_video_ids
    missing,        \* missing
    batch_start,    \* i of _send_sqs_batch
    sent,           \* the video_id of every message SQS accepted, in order
    q_batches,      \* the Entries of every send_message_batch answered
    n_pc,           \* position in the body of the record loop
    n_chat,         \* chat, the record
    n_time,         \* formatted_time
    n_nickname,     \* nickname
    n_hash,         \* user_id_hash
    n_text,         \* text
    n_line,         \* line, before .encode("utf-8")
    n_err,          \* the exception leaving the loop body, or "none"
    n_lines,        \* lines, from 0 before the record
    n_total_bytes,  \* total_bytes, from 0 before the record
    r_pc,           \* position of each concurrent run
    r_upload_id,    \* upload_id of each run, 0 for None
    r_buffer,       \* buffer of each run
    r_parts,        \* parts of each run
    r_pages,        \* pages of each run
    r_fetched,      \* every line each run has appended, in order
    r_sessions,     \* the multipart uploads S3 holds, by UploadId
    r_dest,         \* the object at the key both runs write
    r_writer,       \* the run whose put or complete S3 applied last, or 0
    l_pc,           \* position of the call of list_replays_all
    l_max_pages,    \* max_pages: None or an integer
    l_start_page,   \* start_page
    l_page,         \* page
    l_fetched_pages, \* fetched_pages
    l_all_videos,   \* all_videos: the page each video came from
    l_total_pages,  \* total_pages: None or an integer
    l_requests,     \* calls of _fetch_replays_page
    p_pc,           \* position of the call of process_replays_chat
    p_data,         \* data: the channels, each the videoNo of its replays
    p_channel,      \* the channels the first loop has gone through
    p_files,        \* the videoNo whose chat log file exists with a size
    p_all_video_nos, \* all_video_nos
    p_existing_files, \* existing_files
    p_fetched,      \* the videoNo of each call of fetch_and_save_chat_data
    w_pc,           \* position of the call of run_parallel_with_progress
    w_items,        \* items
    w_workers,      \* max(1, max_workers)
    w_state,        \* each future: queued, running or finished
    w_outcome,      \* what process_func did for each item: a value or "raised"
    w_results,      \* results
    w_order,        \* the indexes in the order as_completed yielded them
    h_pc,           \* position in handler
    h_body,         \* body, records[0].get("body", "")
    h_msg,          \* msg
    h_video_id,     \* video_id
    h_key,          \* key
    h_err           \* the exception that left handler, or "none"

uploadv == <<pc, err, part_size, env_ok, max_pages, cursor, last_next, pages, lines,
             total_bytes, upload_id, parts, buffer, part_number, chats,
             session, uploaded, dest, dest0, fetched, cleanup, calls,
             stallReq, loopParts, stop>>

reqv == <<rq_pc, max_retries, backoff, attempt, response, rq_err, rq_calls,
          waits>>

botv == <<bot_pc, file, file0, bot_chats, bot_requests, outcome, prev, runs,
          bot_cursor, bot_stall>>

queuev == <<q_pc, q_err, chatlists, channels, recent_days, have_ids,
            all_video_ids, missing, batch_start, sent, q_batches>>

normv == <<n_pc, n_chat, n_time, n_nickname, n_hash, n_text, n_line, n_err,
           n_lines, n_total_bytes>>

racev == <<r_pc, r_upload_id, r_buffer, r_parts, r_pages, r_fetched,
           r_sessions, r_dest, r_writer>>

listv == <<l_pc, l_max_pages, l_start_page, l_page, l_fetched_pages,
           l_all_videos, l_total_pages, l_requests>>

procv == <<p_pc, p_data, p_channel, p_files, p_all_video_nos,
           p_existing_files, p_fetched>>

parv == <<w_pc, w_items, w_workers, w_state, w_outcome, w_results, w_order>>

handlerv == <<h_pc, h_body, h_msg, h_video_id, h_key, h_err>>

vars == <<uploadv, reqv, botv, queuev, normv, racev, listv, procv, parv, handlerv>>

\* the variables of the other programs, which a run of the upload leaves alone
otherv == <<reqv, botv, queuev, normv, racev, listv, procv, parv, handlerv>>

\* likewise for a call of _request
notreqv == <<uploadv, botv, queuev, normv, racev, listv, procv, parv, handlerv>>

\* likewise for a call of fetch_and_save_chat_data
notbotv == <<uploadv, reqv, queuev, normv, racev, listv, procv, parv, handlerv>>

\* likewise for an invocation of the queueing handler
notqueuev == <<uploadv, reqv, botv, normv, racev, listv, procv, parv, handlerv>>

\* likewise for the body of the record loop on one record
notnormv == <<uploadv, reqv, botv, queuev, racev, listv, procv, parv, handlerv>>

\* likewise for two concurrent runs of the upload
notracev == <<uploadv, reqv, botv, queuev, normv, listv, procv, parv, handlerv>>

\* likewise for a call of list_replays_all
notlistv == <<uploadv, reqv, botv, queuev, normv, racev, procv, parv, handlerv>>

\* likewise for a call of process_replays_chat
notprocv == <<uploadv, reqv, botv, queuev, normv, racev, listv, parv, handlerv>>

\* likewise for a call of run_parallel_with_progress
notparv == <<uploadv, reqv, botv, queuev, normv, racev, listv, procv, handlerv>>

\* likewise for an invocation of the extraction handler
nothandlerv == <<uploadv, reqv, botv, queuev, normv, racev, listv, procv, parv>>

NoResponse == [status_code |-> 0, code |-> 0]

\* _request is not running
RequestIdle ==
    /\ rq_pc = "idle"
    /\ max_retries = 0
    /\ backoff = 0
    /\ attempt = 0
    /\ response = NoResponse
    /\ rq_err = "none"
    /\ rq_calls = 0
    /\ waits = <<>>

NoObject == [exists |-> FALSE, body |-> <<>>]
OldObject == [exists |-> TRUE, body |-> <<9>>]

CallNames == {"create", "request", "upload_part", "abort", "put", "complete"}

Bump(c, op) == [c EXCEPT ![op] = @ + 1]

\* the locals of _upload_chatlog_to_s3 before the try statement
UploadFresh ==
    /\ err = "none"
    /\ part_size = 0
    /\ env_ok = "unread"
    /\ max_pages = 0
    /\ cursor = "0"
    /\ last_next = None
    /\ pages = 0
    /\ lines = 0
    /\ total_bytes = 0
    /\ upload_id = None
    /\ parts = <<>>
    /\ buffer = <<>>
    /\ part_number = 1
    /\ chats = <<>>
    /\ session = "none"
    /\ uploaded = <<>>
    /\ fetched = <<>>
    /\ cleanup = "none"
    /\ calls = [op \in CallNames |-> 0]
    /\ stallReq = 0
    /\ loopParts = 0
    /\ stop = "none"

NoFile == [exists |-> FALSE, body |-> <<>>]

\* fetch_and_save_chat_data is not running
BotIdle ==
    /\ bot_pc = "idle"
    /\ file = NoFile
    /\ file0 = NoFile
    /\ bot_chats = <<>>
    /\ bot_requests = 0
    /\ outcome = "none"
    /\ prev = "none"
    /\ runs = 0
    /\ bot_cursor = "0"
    /\ bot_stall = 0

NoManifest == [envelope |-> "none", kind |-> "name", names |-> {}]

\* the queueing handler before its first call
QueueFresh ==
    /\ q_err = "none"
    /\ chatlists = NoManifest
    /\ channels = {}
    /\ recent_days = 0
    /\ have_ids = {}
    /\ all_video_ids = {}
    /\ missing = <<>>
    /\ batch_start = 0
    /\ sent = <<>>
    /\ q_batches = <<>>

\* the queueing handler is not running
QueueIdle == q_pc = "idle" /\ QueueFresh

\* a field of a JSON object: absent, null, or a text.  A text is the
\* sequence of its pieces: a piece is " ", "\r", "\n" or a run of other
\* characters.
Absent == [has |-> "absent", s |-> <<>>]
JsonNull == [has |-> "null", s |-> <<>>]
Text(s) == [has |-> "str", s |-> s]

\* a record that is no dict
NotADict ==
    [isdict |-> FALSE,
     messageTime |-> [kind |-> "absent", hi |-> 0, lo |-> 0],
     profile |-> [kind |-> "absent", nickname |-> Absent],
     content |-> Absent,
     userIdHash |-> Absent]

\* the locals of the loop body before the record is read
NormalizeFresh ==
    /\ n_time = ""
    /\ n_nickname = <<>>
    /\ n_hash = <<>>
    /\ n_text = <<>>
    /\ n_line = <<>>
    /\ n_err = "none"
    /\ n_lines = 0
    /\ n_total_bytes = 0

\* no record is being normalized
NormalizeIdle == n_pc = "idle" /\ n_chat = NotADict /\ NormalizeFresh

\* the two concurrent runs
Procs == {1, 2}

\* the UploadId values S3 hands out
UploadIds == 1..Cardinality(Procs)

NoSession == [state |-> "none", parts |-> <<>>]

\* the locals of each run at its start, and an S3 without uploads
RaceFresh ==
    /\ r_upload_id = [p \in Procs |-> 0]
    /\ r_buffer = [p \in Procs |-> <<>>]
    /\ r_parts = [p \in Procs |-> <<>>]
    /\ r_pages = [p \in Procs |-> 0]
    /\ r_fetched = [p \in Procs |-> <<>>]
    /\ r_sessions = [id \in UploadIds |-> NoSession]
    /\ r_writer = 0

\* no concurrent runs
RaceIdle ==
    /\ r_pc = [p \in Procs |-> "idle"]
    /\ r_dest = [exists |-> FALSE, body |-> <<>>]
    /\ RaceFresh

\* an optional integer: None, or Some(n)
NoInt == [set |-> FALSE, n |-> 0]
Some(n) == [set |-> TRUE, n |-> n]

\* list_replays_all is not running
ListIdle ==
    /\ l_pc = "idle"
    /\ l_max_pages = NoInt
    /\ l_start_page = 0
    /\ l_page = 0
    /\ l_fetched_pages = 0
    /\ l_all_videos = <<>>
    /\ l_total_pages = NoInt
    /\ l_requests = 0

\* process_replays_chat is not running
ProcessIdle ==
    /\ p_pc = "idle"
    /\ p_data = <<>>
    /\ p_channel = 0
    /\ p_files = {}
    /\ p_all_video_nos = <<>>
    /\ p_existing_files = <<>>
    /\ p_fetched = <<>>

\* run_parallel_with_progress is not running
ParallelIdle ==
    /\ w_pc = "idle"
    /\ w_items = <<>>
    /\ w_workers = 0
    /\ w_state = <<>>
    /\ w_outcome = <<>>
    /\ w_results = <<>>
    /\ w_order = <<>>

\* a key a JSON object does not hold
NoField == "<absent>"

NoBody == [form |-> "none", video_id |-> NoField, prefix |-> NoField]

NoMsg == [type |-> "none", video_id |-> NoField, prefix |-> NoField]

\* the extraction handler is not running
HandlerIdle ==
    /\ h_pc = "idle"
    /\ h_body = NoBody
    /\ h_msg = NoMsg
    /\ h_video_id = ""
    /\ h_key = ""
    /\ h_err = "none"

Init ==
    /\ pc = "handler"
    /\ dest0 \in {NoObject, OldObject}
    /\ dest = dest0
    /\ UploadFresh
    /\ RequestIdle
    /\ BotIdle
    /\ QueueIdle
    /\ NormalizeIdle
    /\ RaceIdle
    /\ ListIdle
    /\ ProcessIdle
    /\ ParallelIdle
    /\ HandlerIdle

\* no upload is running
UploadIdle ==
    /\ pc = "idle"
    /\ dest0 = NoObject
    /\ dest = dest0
    /\ UploadFresh


cfgv == <<part_size, max_pages, env_ok>>
loopv == <<cursor, last_next, pages, chats>>
bufv == <<lines, total_bytes, buffer>>
upv == <<upload_id, parts, part_number, loopParts>>
s3v == <<session, uploaded, dest>>
ghostv == <<dest0, fetched, stallReq, cleanup, stop>>

\* an exception raised inside the try body reaches the except clause
Raise(e) == pc' = "except" /\ err' = e

(***************************************************************************)
(* handler: the event carries no record (nothing to do), or one SQS record *)
(* whose body names the video.  Nothing is asked of S3 about the           *)
(* destination key before _upload_chatlog_to_s3 is called.                 *)
(***************************************************************************)
Events == [records : {0, 1}, video_id : {"", " ", "1"}]

Handler ==
    /\ pc = "handler"
    /\ \E event \in Events :
          IF event.records = 0
          THEN \* return {"ok": True, "msg": "no records"}
               /\ pc' = "no_records"
               /\ err' = err
          ELSE IF StrStrip(event.video_id) = ""
          THEN \* raise ValueError("missing video_id")
               /\ pc' = "raised"
               /\ err' = "ValueError"
          ELSE /\ pc' = "config"
               /\ err' = err
    /\ UNCHANGED <<cfgv, loopv, bufv, upv, s3v, ghostv, calls>>
    /\ UNCHANGED otherv

(***************************************************************************)
(* Configuration, read before the try statement: an error here leaves the  *)
(* function with no handler and no session.                                *)
(***************************************************************************)
Configure ==
    /\ pc = "config"
    /\ \E timeout \in OtherIntEnvs, mp \in MaxPagesEnvs,
          delay \in OtherIntEnvs, ps \in PartSizeEnvs :
          /\ env_ok' = IF \E raw \in {timeout, mp, delay, ps} : raw.kind = "bad"
                       THEN "bad" ELSE "ok"
          /\ IF \/ EnvIntRaises(timeout) \/ EnvIntRaises(mp)
                \/ EnvIntRaises(delay) \/ EnvIntRaises(ps)
             THEN /\ pc' = "raised"
                  /\ err' = "ValueError"
                  /\ UNCHANGED <<part_size, max_pages>>
             ELSE /\ pc' = "create"
                  /\ err' = err
                  /\ max_pages' = EnvInt(mp, DefaultMaxPages)
                  /\ part_size' = PartSizeOf(ps)
    /\ UNCHANGED <<loopv, bufv, upv, s3v, ghostv, calls>>
    /\ UNCHANGED otherv

(***************************************************************************)
(* s3.create_multipart_upload                                              *)
(***************************************************************************)
CreateMultipartOk ==
    /\ pc = "create"
    /\ calls' = Bump(calls, "create")
    /\ session' = "open"
    /\ uploaded' = <<>>
    /\ upload_id' = "u1"
    /\ pc' = "loop"
    /\ UNCHANGED <<err, cfgv, loopv, bufv, parts, part_number, loopParts,
                   dest, ghostv>>
    /\ UNCHANGED otherv

CreateMultipartFail ==
    /\ pc = "create"
    /\ calls' = Bump(calls, "create")
    /\ Raise("S3Create")
    /\ UNCHANGED <<cfgv, loopv, bufv, upv, s3v, ghostv>>
    /\ UNCHANGED otherv

(***************************************************************************)
(* The page loop: the ceiling test, then one page request.                 *)
(***************************************************************************)
\* a ceiling that lets one page too many through
CeilingReached_OffByOne(p, m) == p > m

\* a loop without the ceiling
CeilingReached_Never(p, m) == FALSE

\* if pages >= max_pages: raise RuntimeError
CeilingReached(p, m) == p >= m

LoopCeiling ==
    /\ pc = "loop"
    /\ CeilingReached(pages, max_pages)
    /\ Raise("MaxPages")
    /\ UNCHANGED <<cfgv, loopv, bufv, upv, s3v, ghostv, calls>>
    /\ UNCHANGED otherv

CanRequest ==
    /\ pc = "loop"
    /\ ~CeilingReached(pages, max_pages)
    /\ calls["request"] < MaxRequests

\* _download_json raises: urlopen raises HTTPError for a 4xx or 5xx status
\* and URLError for a connection failure; json.loads raises for a body that
\* is not JSON.  There is one urlopen call and no loop around it.
DownloadErrors == {"HTTP429", "HTTP503", "HTTP404", "URLError", "JSONDecode"}

TransientErrors == {"HTTP429", "HTTP503"}

FetchFail ==
    /\ CanRequest
    /\ calls' = Bump(calls, "request")
    /\ \E e \in DownloadErrors : Raise(e)
    /\ UNCHANGED <<cfgv, loopv, bufv, upv, s3v, ghostv>>
    /\ UNCHANGED otherv

\* a loop that goes on with the records of a page whatever its code
PageBreaks_EmptyOnly(resp) == resp.chats = <<>>

\* the loop ends without counting the page: code is not 200, or no records
PageBreaks(resp) == resp.code # CodeOK \/ resp.chats = <<>>

FetchPage ==
    /\ CanRequest
    /\ \E resp \in Responses :
          /\ calls' = Bump(calls, "request")
          /\ stop' = IF resp.code # CodeOK THEN "code"
                     ELSE IF resp.chats = <<>> THEN "empty" ELSE stop
          /\ IF PageBreaks(resp)
             THEN /\ pc' = "finalize"
                  /\ UNCHANGED <<chats, fetched>>
             ELSE /\ pc' = "records"
                  /\ chats' = resp.chats
                  /\ fetched' = fetched \o NormalizedLines(resp.chats)
    /\ UNCHANGED <<err, cfgv, cursor, last_next, pages, bufv, upv, s3v, dest0,
                   stallReq, cleanup>>
    /\ UNCHANGED otherv

(***************************************************************************)
(* One record of the page.                                                 *)
(***************************************************************************)
\* a test that leaves a buffer of exactly one part size alone
BufferFull_Strict(buf, n) == Len(buf) > n

\* while len(buffer) >= part_size
BufferFull(buf, n) == Len(buf) >= n

ProcessRecord ==
    /\ pc = "records"
    /\ chats # <<>>
    /\ LET r == Head(chats)
       IN  IF ~IsDict(r) \/ ~HasNumericTime(r)
           THEN \* continue
                /\ chats' = Tail(chats)
                /\ UNCHANGED <<pc, err, bufv>>
           ELSE IF TimeOutOfRange(r)
           THEN \* fromtimestamp raises outside the try of the record
                /\ Raise("Normalize")
                /\ UNCHANGED <<chats, bufv>>
           ELSE /\ buffer' = buffer \o LineOf(r)
                /\ total_bytes' = total_bytes + Len(LineOf(r))
                /\ lines' = lines + 1
                /\ chats' = Tail(chats)
                /\ err' = err
                /\ pc' = IF BufferFull(buffer', part_size)
                         THEN "flush" ELSE "records"
    /\ UNCHANGED <<cfgv, cursor, last_next, pages, upv, s3v, ghostv, calls>>
    /\ UNCHANGED otherv

(***************************************************************************)
(* while len(buffer) >= part_size: one upload_part per turn.               *)
(***************************************************************************)
\* a slice that loses the last byte of the chunk
Chunk_Short(buf, n) == SubSeq(buf, 1, n - 1)

\* chunk = bytes(buffer[:part_size])
Chunk(buf, n) == SubSeq(buf, 1, n)

\* del buffer[:part_size]
Rest(buf, n) == SubSeq(buf, n + 1, Len(buf))

\* S3 keeps the body under the part number (a repeated number overwrites)
StorePart(store, n, body) ==
    [k \in DOMAIN store \cup {n} |-> IF k = n THEN body ELSE store[k]]

\* one turn of the while loop whose upload_part succeeds: the uploader's
\* buffer, part list, part number and the session's stored parts after it
CommitPart(u, n) ==
    LET chunk == Chunk(u.buffer, n)
    IN  [buffer      |-> Rest(u.buffer, n),
         uploaded    |-> StorePart(u.uploaded, u.part_number, chunk),
         parts       |-> Append(u.parts, [ETag |-> chunk,
                                          PartNumber |-> u.part_number]),
         part_number |-> u.part_number + 1]

Uploader ==
    [buffer |-> buffer, uploaded |-> uploaded, parts |-> parts,
     part_number |-> part_number]

UploadPartOk ==
    /\ pc = "flush"
    /\ session = "open"
    /\ LET u == CommitPart(Uploader, part_size)
       IN  /\ buffer' = u.buffer
           /\ uploaded' = u.uploaded
           /\ parts' = u.parts
           /\ part_number' = u.part_number
    /\ loopParts' = loopParts + 1
    /\ calls' = Bump(calls, "upload_part")
    /\ pc' = IF BufferFull(buffer', part_size) THEN "flush" ELSE "records"
    /\ UNCHANGED <<err, cfgv, loopv, lines, total_bytes, upload_id, session,
                   dest, ghostv>>
    /\ UNCHANGED otherv

UploadPartFail ==
    /\ pc = "flush"
    /\ buffer' = Rest(buffer, part_size)
    /\ calls' = Bump(calls, "upload_part")
    /\ Raise("UploadPart")
    /\ UNCHANGED <<cfgv, loopv, lines, total_bytes, upv, s3v, ghostv>>
    /\ UNCHANGED otherv

(***************************************************************************)
(* The end of a page: count it and look at the next cursor.                *)
(***************************************************************************)
\* a stall test that forgets the comparison with the cursor just used
CursorEnds_NoStall(next, last) == next = ""

\* if not next_player_message_time or next_player_message_time == last_next
CursorEnds(next, last) == next = "" \/ next = last

EndPage ==
    /\ pc = "records"
    /\ chats = <<>>
    /\ pages' = pages + 1
    /\ last_next' = cursor
    /\ \E next \in RawCursors :
          /\ stallReq' = IF next # None /\ StrStrip(next) = cursor
                         THEN calls["request"] ELSE stallReq
          /\ IF next = None
             THEN /\ cursor' = None
                  /\ pc' = "finalize"
                  /\ stop' = "no_cursor"
             ELSE /\ cursor' = StrStrip(next)
                  /\ pc' = IF CursorEnds(cursor', last_next')
                           THEN "finalize" ELSE "loop"
                  /\ stop' = IF CursorEnds(cursor', last_next')
                             THEN "cursor" ELSE stop
    /\ UNCHANGED <<err, cfgv, chats, bufv, upv, s3v, dest0, fetched, cleanup,
                   calls>>
    /\ UNCHANGED otherv


(***************************************************************************)
(* Finalize: a single put_object when no part was committed, else the last *)
(* part and complete_multipart_upload.                                     *)
(***************************************************************************)
\* a finalize that takes the direct write only for an empty output
UsePutObject_EmptyOnly(ps, buf) == ps = <<>> /\ buf = <<>>

\* if not parts
UsePutObject(ps, buf) == ps = <<>>

FinalizeAbortOk ==
    /\ pc = "finalize"
    /\ UsePutObject(parts, buffer)
    /\ session = "open"
    /\ calls' = Bump(calls, "abort")
    /\ session' = "aborted"
    /\ upload_id' = None
    /\ pc' = "put"
    /\ UNCHANGED <<err, cfgv, loopv, bufv, parts, part_number, loopParts,
                   uploaded, dest, ghostv>>
    /\ UNCHANGED otherv

FinalizeAbortFail ==
    /\ pc = "finalize"
    /\ UsePutObject(parts, buffer)
    /\ calls' = Bump(calls, "abort")
    /\ Raise("Abort")
    /\ UNCHANGED <<cfgv, loopv, bufv, upv, s3v, ghostv>>
    /\ UNCHANGED otherv

\* a direct write that loses the first buffered byte
PutBody_Truncated(buf) == IF buf = <<>> THEN buf ELSE Tail(buf)

\* Body=bytes(buffer)
PutBody(buf) == buf

PutObjectOk ==
    /\ pc = "put"
    /\ calls' = Bump(calls, "put")
    /\ dest' = [exists |-> TRUE, body |-> PutBody(buffer)]
    /\ pc' = "returned"
    /\ UNCHANGED <<err, cfgv, loopv, bufv, upv, session, uploaded, ghostv>>
    /\ UNCHANGED otherv

PutObjectFail ==
    /\ pc = "put"
    /\ calls' = Bump(calls, "put")
    /\ Raise("Put")
    /\ UNCHANGED <<cfgv, loopv, bufv, upv, s3v, ghostv>>
    /\ UNCHANGED otherv

\* a finalize that always uploads the remainder, even an empty one
HasTail_Always(buf) == TRUE

\* if buffer
HasTail(buf) == buf # <<>>

\* the last part: Body=bytes(buffer) under the current part number; the
\* buffer and the part number stay as they are
CommitTail(u) ==
    [u EXCEPT !.uploaded = StorePart(@, u.part_number, u.buffer),
              !.parts = Append(@, [ETag |-> u.buffer,
                                   PartNumber |-> u.part_number])]

FinalPartOk ==
    /\ pc = "finalize"
    /\ ~UsePutObject(parts, buffer)
    /\ HasTail(buffer)
    /\ session = "open"
    /\ uploaded' = CommitTail(Uploader).uploaded
    /\ parts' = CommitTail(Uploader).parts
    /\ calls' = Bump(calls, "upload_part")
    /\ pc' = "complete"
    /\ UNCHANGED <<err, cfgv, loopv, bufv, upload_id, part_number, loopParts,
                   session, dest, ghostv>>
    /\ UNCHANGED otherv

FinalPartFail ==
    /\ pc = "finalize"
    /\ ~UsePutObject(parts, buffer)
    /\ HasTail(buffer)
    /\ calls' = Bump(calls, "upload_part")
    /\ Raise("UploadPart")
    /\ UNCHANGED <<cfgv, loopv, bufv, upv, s3v, ghostv>>
    /\ UNCHANGED otherv

FinalizeNoTail ==
    /\ pc = "finalize"
    /\ ~UsePutObject(parts, buffer)
    /\ ~HasTail(buffer)
    /\ pc' = "complete"
    /\ UNCHANGED <<err, cfgv, loopv, bufv, upv, s3v, ghostv, calls>>
    /\ UNCHANGED otherv

\* S3 accepts the list when its part numbers ascend, every listed part was
\* uploaded with that ETag, and every part but the last has the minimum size
PartsAcceptable(ps, store) ==
    /\ ps # <<>>
    /\ \A i \in 1..Len(ps) :
          /\ ps[i].PartNumber \in DOMAIN store
          /\ store[ps[i].PartNumber] = ps[i].ETag
          /\ i < Len(ps) =>
                /\ ps[i].PartNumber < ps[i + 1].PartNumber
                /\ Len(store[ps[i].PartNumber]) >= MinPartSizeMB * UnitsPerMiB

\* an assembly that takes the listed parts last to first
RECURSIVE CompleteObject_Reversed(_, _)
CompleteObject_Reversed(ps, store) ==
    IF ps = <<>> THEN <<>>
    ELSE CompleteObject_Reversed(Tail(ps), store) \o store[Head(ps).PartNumber]

\* the object S3 assembles: the bodies of the listed parts, in list order
RECURSIVE CompleteObject(_, _)
CompleteObject(ps, store) ==
    IF ps = <<>> THEN <<>>
    ELSE store[Head(ps).PartNumber] \o CompleteObject(Tail(ps), store)

CompleteOk ==
    /\ pc = "complete"
    /\ session = "open"
    /\ PartsAcceptable(parts, uploaded)
    /\ calls' = Bump(calls, "complete")
    /\ dest' = [exists |-> TRUE, body |-> CompleteObject(parts, uploaded)]
    /\ session' = "completed"
    /\ pc' = "returned"
    /\ UNCHANGED <<err, cfgv, loopv, bufv, upv, uploaded, ghostv>>
    /\ UNCHANGED otherv

CompleteFail ==
    /\ pc = "complete"
    /\ calls' = Bump(calls, "complete")
    /\ Raise("Complete")
    /\ UNCHANGED <<cfgv, loopv, bufv, upv, s3v, ghostv>>
    /\ UNCHANGED otherv

(***************************************************************************)
(* The run as a function of its lines and its part size, when no call      *)
(* fails: the same steps, folded over the lines.                           *)
(***************************************************************************)
EmptyUploader ==
    [buffer |-> <<>>, uploaded |-> <<>>, parts |-> <<>>, part_number |-> 1]

\* while len(buffer) >= part_size
RECURSIVE FlushAll(_, _)
FlushAll(u, n) ==
    IF Len(u.buffer) >= n THEN FlushAll(CommitPart(u, n), n) ELSE u

\* buffer.extend(line), then the while loop
AddLine(u, line, n) == FlushAll([u EXCEPT !.buffer = @ \o line], n)

RECURSIVE AddLines(_, _, _)
AddLines(u, ls, n) ==
    IF ls = <<>> THEN u ELSE AddLines(AddLine(u, Head(ls), n), Tail(ls), n)

\* the object finalize leaves at the destination
FinalObject(u) ==
    IF UsePutObject(u.parts, u.buffer) THEN PutBody(u.buffer)
    ELSE IF HasTail(u.buffer)
         THEN CompleteObject(CommitTail(u).parts, CommitTail(u).uploaded)
         ELSE CompleteObject(u.parts, u.uploaded)

RunObject(ls, n) == FinalObject(AddLines(EmptyUploader, ls, n))

(***************************************************************************)
(* except Exception: abort the session when upload_id is set, swallow the  *)
(* abort's own failure, re-raise.                                          *)
(***************************************************************************)
\* a handler that never aborts
HandlerAborts_Never(id) == FALSE

\* a handler that aborts whatever upload_id holds
HandlerAborts_Always(id) == TRUE

\* if upload_id
HandlerAborts(id) == id # None

\* a handler that lets the failure of its own abort call out
Reraise_Cleanup(body_error, abort_error) == abort_error

\* except Exception: pass, then the bare raise: the exception being handled
\* leaves, whatever the abort call raised
Reraise(body_error, abort_error) == body_error

ExceptAbortOk ==
    /\ pc = "except"
    /\ HandlerAborts(upload_id)
    /\ session = "open"
    /\ calls' = Bump(calls, "abort")
    /\ session' = "aborted"
    /\ cleanup' = "aborted"
    /\ pc' = "raised"
    /\ UNCHANGED <<err, cfgv, loopv, bufv, upv, uploaded, dest, dest0, fetched,
                   stallReq, stop>>
    /\ UNCHANGED otherv

ExceptAbortFail ==
    /\ pc = "except"
    /\ HandlerAborts(upload_id)
    /\ calls' = Bump(calls, "abort")
    /\ cleanup' = "abort_failed"
    /\ err' = Reraise(err, "AbortCleanup")
    /\ pc' = "raised"
    /\ UNCHANGED <<cfgv, loopv, bufv, upv, s3v, dest0, fetched, stallReq,
                   stop>>
    /\ UNCHANGED otherv

ExceptNoAbort ==
    /\ pc = "except"
    /\ ~HandlerAborts(upload_id)
    /\ cleanup' = "skipped"
    /\ pc' = "raised"
    /\ UNCHANGED <<err, cfgv, loopv, bufv, upv, s3v, dest0, fetched, stallReq,
                   stop, calls>>
    /\ UNCHANGED otherv

(***************************************************************************)
(* A BaseException that is no Exception (KeyboardInterrupt, SystemExit, a  *)
(* cancellation) or the end of the process at the Lambda timeout, while    *)
(* the run waits in a blocking call (the page delay, the page request, an  *)
(* S3 call): the except Exception clause does not run.                     *)
(***************************************************************************)
Blocking == {"create", "loop", "flush", "finalize", "put", "complete",
             "except"}

Cancel ==
    /\ pc \in Blocking
    /\ pc' = "cancelled"
    /\ err' = "BaseException"
    /\ UNCHANGED <<cfgv, loopv, bufv, upv, s3v, ghostv, calls>>
    /\ UNCHANGED otherv

Next ==
    \/ Handler
    \/ Configure
    \/ CreateMultipartOk
    \/ CreateMultipartFail
    \/ LoopCeiling
    \/ FetchFail
    \/ FetchPage
    \/ ProcessRecord
    \/ UploadPartOk
    \/ UploadPartFail
    \/ EndPage
    \/ FinalizeAbortOk
    \/ FinalizeAbortFail
    \/ PutObjectOk
    \/ PutObjectFail
    \/ FinalPartOk
    \/ FinalPartFail
    \/ FinalizeNoTail
    \/ CompleteOk
    \/ CompleteFail
    \/ ExceptAbortOk
    \/ ExceptAbortFail
    \/ ExceptNoAbort
    \/ Cancel

Spec == Init /\ [][Next]_vars

\* a step of the run itself: every step but the cancellation, which comes
\* from outside
ProgramStep == Next /\ pc' # "cancelled"

\* the run keeps running: the handler is one thread, each step is a
\* computation that ends or a call with a timeout
SpecLive == Init /\ [][Next]_vars /\ WF_vars(ProgramStep)


(***************************************************************************)
(* _request (list_replays.py): one wrapped GET with retries.               *)
(* Times are in tenths of a second.                                        *)
(***************************************************************************)
\* the largest max_retries argument explored
MaxRetriesArg == 3

\* backoff=0.8
DefaultBackoff == 8

\* r.status_code == 200
StatusOK == 200

\* j.get("code") == 200
ContentCodeOK == 200

Backoffs == {1, DefaultBackoff}

Statuses == {200, 204, 304, 400, 404, 429, 500, 501, 502, 503, 504}

\* the code of the JSON body of a 200 response (0: the body has no code)
ContentCodes == {0, ContentCodeOK, 500}

RequestResponses ==
    {x \in [status_code : Statuses, code : ContentCodes] :
        x.status_code # StatusOK => x.code = 0}

\* a retry list that keeps the rate limit only
IsTransient_Only429(status) == status = 429

\* r.status_code in (429, 500, 502, 503)
IsTransient(status) == status \in {429, 500, 502, 503}

\* requests' raise_for_status raises HTTPError for 4xx and 5xx only
RaiseForStatusRaises(status) == status >= 400 /\ status < 600

RECURSIVE Pow2(_)
Pow2(n) == IF n = 0 THEN 1 ELSE 2 * Pow2(n - 1)

\* time.sleep(backoff * (2**attempt))
SleepTime(b, a) == b * Pow2(a)

InitRequest ==
    /\ UploadIdle
    /\ BotIdle
    /\ QueueIdle
    /\ NormalizeIdle
    /\ RaceIdle
    /\ ListIdle
    /\ ProcessIdle
    /\ ParallelIdle
    /\ HandlerIdle
    /\ rq_pc = "get"
    /\ max_retries \in 0..MaxRetriesArg
    /\ backoff \in Backoffs
    /\ attempt = 0
    /\ response = NoResponse
    /\ rq_err = "none"
    /\ rq_calls = 0
    /\ waits = <<>>

\* one pass of the for loop up to its return, raise, sleep or fall-through
Get ==
    /\ rq_pc = "get"
    /\ attempt < max_retries
    /\ rq_calls' = rq_calls + 1
    /\ \E resp \in RequestResponses :
          /\ response' = resp
          /\ IF resp.status_code = StatusOK
             THEN IF resp.code = ContentCodeOK
                  THEN \* return j["content"]
                       /\ rq_pc' = "returned"
                       /\ UNCHANGED <<rq_err, attempt>>
                  ELSE \* raise ChzzkAPIError("API returned non-200 code")
                       /\ rq_pc' = "raised"
                       /\ rq_err' = "ChzzkAPIError_code"
                       /\ UNCHANGED attempt
             ELSE IF IsTransient(resp.status_code)
             THEN /\ rq_pc' = "sleep"
                  /\ UNCHANGED <<rq_err, attempt>>
             ELSE IF RaiseForStatusRaises(resp.status_code)
             THEN /\ rq_pc' = "raised"
                  /\ rq_err' = "HTTPError"
                  /\ UNCHANGED attempt
             ELSE \* raise_for_status returns: the loop goes on
                  /\ attempt' = attempt + 1
                  /\ UNCHANGED <<rq_pc, rq_err>>
    /\ UNCHANGED <<max_retries, backoff, waits, notreqv>>

\* SESSION.get raises (timeout, connection error): nothing catches it
GetRaises ==
    /\ rq_pc = "get"
    /\ attempt < max_retries
    /\ rq_calls' = rq_calls + 1
    /\ response' = NoResponse
    /\ rq_pc' = "raised"
    /\ rq_err' = "RequestException"
    /\ UNCHANGED <<max_retries, backoff, attempt, waits, notreqv>>

\* time.sleep(backoff * (2**attempt)); continue
Sleep ==
    /\ rq_pc = "sleep"
    /\ waits' = Append(waits, SleepTime(backoff, attempt))
    /\ attempt' = attempt + 1
    /\ rq_pc' = "get"
    /\ UNCHANGED <<max_retries, backoff, response, rq_err, rq_calls, notreqv>>

\* the loop is over: raise ChzzkAPIError("Failed after ... retries")
Exhausted ==
    /\ rq_pc = "get"
    /\ attempt >= max_retries
    /\ rq_pc' = "raised"
    /\ rq_err' = "ChzzkAPIError_retries"
    /\ UNCHANGED <<max_retries, backoff, attempt, response, rq_calls, waits,
                   notreqv>>

NextRequest ==
    \/ Get
    \/ GetRaises
    \/ Sleep
    \/ Exhausted

SpecRequest == InitRequest /\ [][NextRequest]_vars


(***************************************************************************)
(* fetch_and_save_chat_data (bot-replays-chat.py): the local extraction of *)
(* one video into chatLog-<video_no>.log, called again for the same video  *)
(* by a later run of the bot.                                              *)
(***************************************************************************)
\* calls of fetch_and_save_chat_data for the video
MaxRuns == 2

\* page requests one call may issue (the loop has no ceiling of its own)
MaxBotRequests == 2

\* records of a page: "A" is written as a line; "K" lacks a key the loop
\* reads (KeyError); "T" has a messageTime that is no number (TypeError)
BotRecordKinds == {"A", "K", "T"}

BotPages == {<<>>} \cup [1..1 -> BotRecordKinds] \cup [1..2 -> BotRecordKinds]

\* the line written for a record
BotLineOf(rec) == <<"line", rec>>

\* data["code"] (0: the key is missing) and data["content"]["videoChats"]
BotResponses == [code : {0, CodeOK, 500}, chats : BotPages]

\* nextPlayerMessageTime at the end of a page: null, a cursor (the one of
\* the first request, another one, or the empty text), or no key
BotCursors == {None, "0", "1", "", "<missing>"}

OldFile == [exists |-> TRUE, body |-> <<9>>]

EmptyFile == [exists |-> TRUE, body |-> <<>>]

\* an existence test that never skips
ShouldSkip_Never(f) == FALSE

\* if file_path.exists() and file_path.stat().st_size > 0
ShouldSkip(f) == f.exists /\ Len(f.body) > 0

InitBot ==
    /\ UploadIdle
    /\ RequestIdle
    /\ QueueIdle
    /\ NormalizeIdle
    /\ RaceIdle
    /\ ListIdle
    /\ ProcessIdle
    /\ ParallelIdle
    /\ HandlerIdle
    /\ bot_pc = "check"
    /\ file \in {NoFile, EmptyFile, OldFile}
    /\ file0 = file
    /\ bot_chats = <<>>
    /\ bot_requests = 0
    /\ outcome = "none"
    /\ prev = "none"
    /\ runs = 1
    /\ bot_cursor = "0"
    /\ bot_stall = 0

\* the call ends: every path returns None to the caller
BotEnds(how) == bot_pc' = "done" /\ outcome' = how

\* the existence test, then open(file_path, "w")
BotCheck ==
    /\ bot_pc = "check"
    /\ IF ShouldSkip(file)
       THEN /\ BotEnds("skipped")
            /\ UNCHANGED file
       ELSE /\ file' = EmptyFile
            /\ bot_pc' = "request"
            /\ UNCHANGED outcome
    /\ UNCHANGED <<file0, bot_chats, bot_requests, prev, runs, bot_cursor,
                   bot_stall, notbotv>>

\* requests.get or raise_for_status raises: the except clause prints and
\* the function returns
BotRequestFails ==
    /\ bot_pc = "request"
    /\ bot_requests < MaxBotRequests
    /\ bot_requests' = bot_requests + 1
    /\ BotEnds("error")
    /\ UNCHANGED <<file, file0, bot_chats, prev, runs, bot_cursor, bot_stall,
                   notbotv>>

BotPage ==
    /\ bot_pc = "request"
    /\ bot_requests < MaxBotRequests
    /\ bot_requests' = bot_requests + 1
    /\ \E resp \in BotResponses :
          IF resp.code = 0
          THEN \* data["code"]: KeyError
               /\ BotEnds("error")
               /\ UNCHANGED bot_chats
          ELSE IF resp.code = CodeOK /\ resp.chats # <<>>
          THEN /\ bot_pc' = "records"
               /\ bot_chats' = resp.chats
               /\ UNCHANGED outcome
          ELSE \* break
               /\ BotEnds("saved")
               /\ UNCHANGED bot_chats
    /\ UNCHANGED <<file, file0, prev, runs, bot_cursor, bot_stall, notbotv>>

\* one record of the page: file.write(log_message), or an exception
BotRecord ==
    /\ bot_pc = "records"
    /\ bot_chats # <<>>
    /\ IF Head(bot_chats) = "A"
       THEN /\ file' = [file EXCEPT !.body = Append(@, BotLineOf(Head(bot_chats)))]
            /\ bot_chats' = Tail(bot_chats)
            /\ UNCHANGED <<bot_pc, outcome>>
       ELSE /\ BotEnds("error")
            /\ UNCHANGED <<file, bot_chats>>
    /\ UNCHANGED <<file0, bot_requests, prev, runs, bot_cursor, bot_stall,
                   notbotv>>

\* the end of a page: the loop ends on a null cursor only
BotEndPage ==
    /\ bot_pc = "records"
    /\ bot_chats = <<>>
    /\ \E next \in BotCursors :
          IF next = "<missing>"
          THEN BotEnds("error") /\ UNCHANGED <<bot_cursor, bot_stall>>
          ELSE /\ bot_cursor' = next
               /\ bot_stall' = IF bot_stall = 0 /\ next \in {bot_cursor, ""}
                                THEN bot_requests ELSE bot_stall
               /\ IF next = None
                  THEN BotEnds("saved")
                  ELSE bot_pc' = "request" /\ UNCHANGED outcome
    /\ UNCHANGED <<file, file0, bot_chats, bot_requests, prev, runs, notbotv>>

\* the next call for the same video
BotCallAgain ==
    /\ bot_pc = "done"
    /\ runs < MaxRuns
    /\ runs' = runs + 1
    /\ bot_pc' = "check"
    /\ file0' = file
    /\ bot_requests' = 0
    /\ prev' = outcome
    /\ outcome' = "none"
    /\ bot_cursor' = "0"
    /\ bot_stall' = 0
    /\ UNCHANGED <<file, bot_chats, notbotv>>

NextBot ==
    \/ BotCheck
    \/ BotRequestFails
    \/ BotPage
    \/ BotRecord
    \/ BotEndPage
    \/ BotCallAgain

SpecBot == InitBot /\ [][NextBot]_vars


(***************************************************************************)
(* The queueing handler (queueing-videos.py): manifest, channels JSON,     *)
(* difference, SQS.  An identifier is the text left by str(x).strip() and  *)
(* the removal of a ".json" suffix: a number n stands for its decimal      *)
(* digits, and form tells what else the text carries.  Times are in days.  *)
(***************************************************************************)
\* replays of the large channels JSON (more than one SQS batch)
BulkCount == 12

\* SendMessageBatch takes 10 entries
BatchSize == 10

\* os.environ.get("RECENT_DAYS", "7")
DefaultRecentDays == 7

\* datetime.now(timezone.utc), as a day number
NowDay == 10

Digits(n) == [n |-> n, form |-> "digits"]

\* names of a manifest: "1.json", "2", " 3.JSON " and "chatLog-1.log"
NameUniverse ==
    { [n |-> 1, form |-> "json"], [n |-> 2, form |-> "plain"],
      [n |-> 3, form |-> "padded_JSON"], [n |-> 1, form |-> "chatLog_log"] }

\* str(x).strip(), then the ".json" suffix (any case) is cut
NameId(name) ==
    IF name.form \in {"plain", "json", "padded_JSON"}
    THEN Digits(name.n)
    ELSE [n |-> name.n, form |-> name.form]

\* a key keeps its directory
LastSegment_WholeKey(name) == [n |-> name.n, form |-> "path"]

\* it["key"].rsplit("/", 1)[-1] of the key "raw/chats/<name>"
LastSegment(name) == name

\* the JSON document: a list, a dict with an "items" list, or neither; its
\* items are names, objects with a filename or objects with a key
Envelopes == {"list", "items", "none"}

ItemKinds == {"name", "filename", "key"}

Manifests == [envelope : Envelopes, kind : ItemKinds, names : SUBSET NameUniverse]

\* the name of the object the extraction handler writes for a video:
\* the last segment of f"{out_prefix}chatLog-{video_id}.log"
ObjectName(n) == [n |-> n, form |-> "chatLog_log"]

\* the manifest the s3-lists handler writes for a prefix holding the
\* objects `names`: a dict with "items", each with a key and a filename
\* (the loader reads the filename first)
S3ListsManifest(names) ==
    [envelope |-> "items", kind |-> "filename", names |-> names]

\* _load_have_ids_from_chatlists
LoadHaveIds(m) ==
    LET names ==
            IF m.envelope = "list"
            THEN \* [x for x in obj if isinstance(x, (str, int))]
                 IF m.kind = "name" THEN m.names ELSE {}
            ELSE IF m.envelope = "items"
            THEN IF m.kind = "key"
                 THEN {LastSegment(x) : x \in m.names}
                 ELSE m.names
            ELSE {}
    IN  {NameId(x) : x \in names}

\* videoNo of a replay: a number, a string of digits (padded or not) or null
VInt(n) == [kind |-> "int", n |-> n]
VStr(n) == [kind |-> "str", n |-> n]
VNone == [kind |-> "none", n |-> 0]

\* end of a replay: a "%Y-%m-%d %H:%M:%S" text, or a text that is no time
EndAt(day) == [kind |-> "time", day |-> day]
EndText == [kind |-> "text", day |-> 0]

ReplayUniverse ==
    { [videoNo |-> VInt(1), end |-> EndAt(NowDay)],
      [videoNo |-> VStr(1), end |-> EndAt(NowDay - 8)],
      [videoNo |-> VInt(2), end |-> EndAt(NowDay - 1)],
      [videoNo |-> VInt(3), end |-> EndAt(NowDay - 7)],
      [videoNo |-> VInt(4), end |-> EndText],
      [videoNo |-> VNone, end |-> EndAt(NowDay)] }

BulkReplays ==
    { [videoNo |-> VInt(100 + k), end |-> EndAt(NowDay)] : k \in 1..BulkCount }

ChannelLists == (SUBSET ReplayUniverse) \cup {BulkReplays}

RecentDaysEnvs == {EnvUnset, EnvBlank, EnvBad, EnvOf(-1), EnvOf(0), EnvOf(1)}

\* int(os.environ.get("RECENT_DAYS", "7").strip()) raises, or is negative
RecentDaysRaises(raw) ==
    \/ raw.kind \in {"blank", "bad"}
    \/ raw.kind = "int" /\ raw.val < 0

RecentDaysOf(raw) == IF raw.kind = "unset" THEN DefaultRecentDays ELSE raw.val

\* a replay is dropped when end_dt_utc < cutoff_utc
TooOld(end, days) == end.day < NowDay - days

\* _extract_videoNos_from_channels_json
ExtractVideoNos(replays, days) ==
    { Digits(rp.videoNo.n) :
        rp \in { x \in replays : /\ x.videoNo.kind # "none"
                                  /\ x.end.kind = "time"
                                  /\ ~TooOld(x.end, days) } }

\* a difference that forgets the manifest
Missing_All(all, have) == all

\* all_video_ids - have_ids
Missing(all, have) == all \ have

\* sorted(...): the identifiers of one run have the same number of digits,
\* so the order of the strings is the order of the numbers
RECURSIVE Sorted(_)
Sorted(S) ==
    IF S = {} THEN <<>>
    ELSE LET m == CHOOSE x \in S : \A y \in S : x.n <= y.n
         IN  <<m>> \o Sorted(S \ {m})

Min(a, b) == IF a <= b THEN a ELSE b

\* messages[i : i + 10]
Batch(msgs, i) == SubSeq(msgs, i + 1, Min(i + BatchSize, Len(msgs)))

\* entries whose Ids are all "0"
Entries_SameId(batch) ==
    [j \in 1..Len(batch) |-> [Id |-> 0, MessageBody |-> batch[j]]]

\* [{"Id": str(j), "MessageBody": ...} for j, m in enumerate(batch)]: the
\* body of a message is its video id, the only field that differs
Entries(batch) ==
    [j \in 1..Len(batch) |-> [Id |-> j - 1, MessageBody |-> batch[j]]]

\* the entries SQS reports as Failed: none, the first, or all of the batch
FailChoices(batch) == {{}, {1}, 1..Len(batch)}

RECURSIVE Accepted(_, _, _)
Accepted(batch, failed, j) ==
    IF j > Len(batch) THEN <<>>
    ELSE (IF j \in failed THEN <<>> ELSE <<batch[j]>>)
         \o Accepted(batch, failed, j + 1)

InitQueue ==
    /\ UploadIdle
    /\ RequestIdle
    /\ BotIdle
    /\ NormalizeIdle
    /\ RaceIdle
    /\ ListIdle
    /\ ProcessIdle
    /\ ParallelIdle
    /\ HandlerIdle
    /\ q_pc = "manifest"
    /\ QueueFresh

QRaise(e) == q_pc' = "raised" /\ q_err' = e

\* s3.get_object and _load_have_ids_from_chatlists
QLoadManifest ==
    /\ q_pc = "manifest"
    /\ \E m \in Manifests :
          /\ chatlists' = m
          /\ have_ids' = LoadHaveIds(m)
    /\ q_pc' = "channels"
    /\ UNCHANGED <<q_err, channels, recent_days, all_video_ids, missing,
                   batch_start, sent, q_batches,
                   notqueuev>>

\* get_object raises, or the body is no JSON
QLoadManifestFail ==
    /\ q_pc = "manifest"
    /\ QRaise("Manifest")
    /\ UNCHANGED <<chatlists, channels, recent_days, have_ids, all_video_ids,
                   missing, batch_start, sent, q_batches,
                   notqueuev>>

\* _download_text, _extract_videoNos_from_channels_json, the difference and
\* the message list
QExtract ==
    /\ q_pc = "channels"
    /\ \E chs \in ChannelLists, raw \in RecentDaysEnvs :
          /\ channels' = chs
          /\ IF RecentDaysRaises(raw)
             THEN /\ QRaise("ValueError")
                  /\ UNCHANGED <<recent_days, all_video_ids, missing>>
             ELSE /\ recent_days' = RecentDaysOf(raw)
                  /\ all_video_ids' = ExtractVideoNos(chs, recent_days')
                  /\ missing' = Sorted(Missing(all_video_ids', have_ids))
                  /\ q_pc' = IF missing' = <<>> THEN "returned" ELSE "send"
                  /\ UNCHANGED q_err
    /\ UNCHANGED <<chatlists, have_ids, batch_start, sent, q_batches,
                   notqueuev>>

\* _download_text raises
QDownloadFail ==
    /\ q_pc = "channels"
    /\ QRaise("Download")
    /\ UNCHANGED <<chatlists, channels, recent_days, have_ids, all_video_ids,
                   missing, batch_start, sent, q_batches,
                   notqueuev>>

\* one pass of the loop of _send_sqs_batch
QSendBatch ==
    /\ q_pc = "send"
    /\ LET batch == Batch(missing, batch_start)
       IN  \E failed \in FailChoices(batch) :
              /\ sent' = sent \o Accepted(batch, failed, 1)
              /\ q_batches' = Append(q_batches, Entries(batch))
              /\ IF failed # {}
                 THEN \* raise RuntimeError("SQS send failed")
                      /\ QRaise("RuntimeError")
                      /\ UNCHANGED batch_start
                 ELSE /\ batch_start' = batch_start + BatchSize
                      /\ q_pc' = IF batch_start' >= Len(missing)
                                 THEN "returned" ELSE "send"
                      /\ UNCHANGED q_err
    /\ UNCHANGED <<chatlists, channels, recent_days, have_ids, all_video_ids,
                   missing, notqueuev>>

\* sqs.send_message_batch raises
QSendRaises ==
    /\ q_pc = "send"
    /\ QRaise("SQS")
    /\ UNCHANGED <<chatlists, channels, recent_days, have_ids, all_video_ids,
                   missing, batch_start, sent, q_batches,
                   notqueuev>>

NextQueue ==
    \/ QLoadManifest
    \/ QLoadManifestFail
    \/ QExtract
    \/ QDownloadFail
    \/ QSendBatch
    \/ QSendRaises

SpecQueue == InitQueue /\ [][NextQueue]_vars

(***************************************************************************)
(* The normalizer: the body of the record loop of _upload_chatlog_to_s3    *)
(* (lines 139-167) on one record, with _safe_nickname.                     *)
(*                                                                         *)
(* messageTime is absent, a text that is no number, a number no date       *)
(* represents, or a number of milliseconds.  A number of milliseconds is   *)
(* written hi * 10^6 + lo with 0 <= lo < 10^6, since it does not fit the   *)
(* integers of the checker.                                                *)
(***************************************************************************)
\* timedelta(hours=9), in seconds
KstOffsetSec == 32400

Ms(hi, lo) == [kind |-> "num", hi |-> hi, lo |-> lo]

MessageTimes ==
    { [kind |-> "absent", hi |-> 0, lo |-> 0],
      [kind |-> "text", hi |-> 0, lo |-> 0],
      [kind |-> "huge", hi |-> 0, lo |-> 0],
      Ms(1700000, 0), Ms(0, 0), Ms(-1, 999999),
      Ms(951749, 999999), Ms(951750, 0) }

\* float(message_time) raises TypeError or ValueError
TimeNotNumeric(t) == t.kind \in {"absent", "text"}

\* datetime.fromtimestamp raises OverflowError, OSError or ValueError
TimeNotRepresentable(t) == t.kind = "huge"

\* float(message_time) / 1000.0: the whole seconds (strftime shows no
\* fraction, and the fraction of a negative time counts from the second
\* below)
Seconds(t) == t.hi * 1000 + (t.lo \div 1000)

\* a conversion that forgets the offset
ToLocal_UTC(secs) == secs

\* the wall clock of the zone kst, as seconds since 1970-01-01 00:00:00
ToLocal(secs) == secs + KstOffsetSec

\* the proleptic Gregorian date of a day number (0 is 1970-01-01)
CivilFromDays(days) ==
    LET z == days + 719468
        era == z \div 146097
        doe == z - era * 146097
        yoe == (doe - doe \div 1460 + doe \div 36524 - doe \div 146096) \div 365
        doy == doe - (365 * yoe + yoe \div 4 - yoe \div 100)
        mp == (5 * doy + 2) \div 153
        d == doy - (153 * mp + 2) \div 5 + 1
        m == IF mp < 10 THEN mp + 3 ELSE mp - 9
        y == yoe + era * 400 + (IF m <= 2 THEN 1 ELSE 0)
    IN  [y |-> y, m |-> m, d |-> d]

\* %m, %d, %H, %M, %S
Pad2(n) == IF n < 10 THEN "0" \o ToString(n) ELSE ToString(n)

\* %Y
Pad4(n) ==
    IF n < 10 THEN "000" \o ToString(n)
    ELSE IF n < 100 THEN "00" \o ToString(n)
    ELSE IF n < 1000 THEN "0" \o ToString(n)
    ELSE ToString(n)

\* datetime.fromtimestamp(timestamp, kst).strftime("%Y-%m-%d %H:%M:%S")
FormattedTime(t) ==
    LET local == ToLocal(Seconds(t))
        c == CivilFromDays(local \div 86400)
        rem == local % 86400
    IN  Pad4(c.y) \o "-" \o Pad2(c.m) \o "-" \o Pad2(c.d) \o " "
            \o Pad2(rem \div 3600) \o ":" \o Pad2((rem % 3600) \div 60)
            \o ":" \o Pad2(rem % 60)

Unknown == <<"Unknown">>

\* the nickname field of the profile object
NicknameFields ==
    { Absent, JsonNull, Text(<<>>), Text(<<"abc">>), Text(<<"null">>),
      Text(<<"a", "\n", "b">>) }

\* profile: absent (or null), the text "", the text "null", a text that is
\* no JSON, a JSON text that is no object, a JSON text nested deeper than
\* the parser's recursion limit, a JSON text of an object, a dict, or a
\* value of another type
Profiles ==
    { [kind |-> k, nickname |-> Absent] :
        k \in {"absent", "empty", "null", "badjson", "nonobject", "deep",
               "other"} }
        \cup [kind : {"object", "dict"}, nickname : NicknameFields]

\* str(obj.get("nickname") or "Unknown")
NicknameOr(f) == IF f.has = "str" /\ f.s # <<>> THEN f.s ELSE Unknown

\* json.loads raises an exception that is no JSONDecodeError
SafeNicknameRaises(p) == p.kind = "deep"

\* _safe_nickname
SafeNickname(p) ==
    IF \/ p.kind \in {"absent", "empty"}
       \/ p.kind = "dict" /\ p.nickname = Absent
       \/ p.kind = "null"
    THEN Unknown
    ELSE IF p.kind = "dict" THEN NicknameOr(p.nickname)
    ELSE IF p.kind = "object" THEN NicknameOr(p.nickname)
    ELSE Unknown

Contents ==
    { Absent, JsonNull, Text(<<"hello", "\n", "world">>),
      Text(<<"\r", "\n", "hi", " ">>), Text(<<"hi">>) }

Hashes ==
    { Absent, Text(<<"h1">>), Text(<<" ", "h1", "\n">>),
      Text(<<"h", "\n", "1">>) }

Chats ==
    [isdict : {TRUE}, messageTime : MessageTimes, profile : Profiles,
     content : Contents, userIdHash : Hashes] \cup {NotADict}

\* str(chat.get(k, ""))
StrOf(f) ==
    CASE f.has = "absent" -> <<>>
      [] f.has = "null"   -> <<"None">>
      [] OTHER            -> f.s

Whitespace == {" ", "\r", "\n"}

\* str.strip()
RECURSIVE Strip(_)
Strip(s) ==
    IF s = <<>> THEN s
    ELSE IF Head(s) \in Whitespace THEN Strip(Tail(s))
    ELSE IF s[Len(s)] \in Whitespace THEN Strip(SubSeq(s, 1, Len(s) - 1))
    ELSE s

\* .replace("\r", " ").replace("\n", " ")
ReplaceBreaks(s) ==
    [i \in DOMAIN s |-> IF s[i] \in {"\r", "\n"} THEN " " ELSE s[i]]

\* f"[{formatted_time}] {nickname}: {text} ({user_id_hash})\n"
FormatLine(time, nick, txt, hash) ==
    <<"[" \o time \o "] ">> \o nick \o <<": ">> \o txt \o <<" (">> \o hash
        \o <<")", "\n">>

\* the text of a sequence of pieces
RECURSIVE Join(_)
Join(s) == IF s = <<>> THEN "" ELSE Head(s) \o Join(Tail(s))

InitNormalize ==
    /\ UploadIdle
    /\ RequestIdle
    /\ BotIdle
    /\ QueueIdle
    /\ RaceIdle
    /\ ListIdle
    /\ ProcessIdle
    /\ ParallelIdle
    /\ HandlerIdle
    /\ n_pc = "record"
    /\ n_chat \in Chats
    /\ NormalizeFresh

\* if not isinstance(chat, dict): continue
NSkip ==
    /\ n_pc = "record"
    /\ ~n_chat.isdict
    /\ n_pc' = "dropped"
    /\ UNCHANGED <<n_chat, n_time, n_nickname, n_hash, n_text, n_line, n_err,
                   n_lines, n_total_bytes,
                   notnormv>>

\* timestamp = float(message_time) / 1000.0, or continue
NParseTime ==
    /\ n_pc = "record"
    /\ n_chat.isdict
    /\ n_pc' = IF TimeNotNumeric(n_chat.messageTime) THEN "dropped"
               ELSE "format"
    /\ UNCHANGED <<n_chat, n_time, n_nickname, n_hash, n_text, n_line, n_err,
                   n_lines, n_total_bytes,
                   notnormv>>

\* formatted_time
NFormatTime ==
    /\ n_pc = "format"
    /\ IF TimeNotRepresentable(n_chat.messageTime)
       THEN /\ n_pc' = "raised"
            /\ n_err' = "OverflowError"
            /\ UNCHANGED n_time
       ELSE /\ n_pc' = "nickname"
            /\ n_time' = FormattedTime(n_chat.messageTime)
            /\ UNCHANGED n_err
    /\ UNCHANGED <<n_chat, n_nickname, n_hash, n_text, n_line, n_lines, n_total_bytes,
                   notnormv>>

\* nickname = _safe_nickname(chat.get("profile"))
NNickname ==
    /\ n_pc = "nickname"
    /\ IF SafeNicknameRaises(n_chat.profile)
       THEN /\ n_pc' = "raised"
            /\ n_err' = "RecursionError"
            /\ UNCHANGED n_nickname
       ELSE /\ n_pc' = "fields"
            /\ n_nickname' = SafeNickname(n_chat.profile)
            /\ UNCHANGED n_err
    /\ UNCHANGED <<n_chat, n_time, n_hash, n_text, n_line, n_lines, n_total_bytes,
                   notnormv>>

\* user_id_hash and text
NFields ==
    /\ n_pc = "fields"
    /\ n_hash' = Strip(StrOf(n_chat.userIdHash))
    /\ n_text' = Strip(ReplaceBreaks(StrOf(n_chat.content)))
    /\ n_pc' = "line"
    /\ UNCHANGED <<n_chat, n_time, n_nickname, n_line, n_err, n_lines, n_total_bytes,
                   notnormv>>

\* line, buffer.extend(line), total_bytes += len(line), lines += 1 (the
\* pieces of the model are ASCII: a character is a byte)
NLine ==
    /\ n_pc = "line"
    /\ n_line' = FormatLine(n_time, n_nickname, n_text, n_hash)
    /\ n_total_bytes' = n_total_bytes + Len(Join(n_line'))
    /\ n_lines' = n_lines + 1
    /\ n_pc' = "appended"
    /\ UNCHANGED <<n_chat, n_time, n_nickname, n_hash, n_text, n_err, notnormv>>

NextNormalize ==
    \/ NSkip
    \/ NParseTime
    \/ NFormatTime
    \/ NNickname
    \/ NFields
    \/ NLine

SpecNormalize == InitNormalize /\ [][NextNormalize]_vars

(***************************************************************************)
(* Two concurrent runs of _upload_chatlog_to_s3 on the same bucket and     *)
(* key (two Lambda invocations for one video_id).  Every local of the      *)
(* function is a function over Procs; the runs share S3 only.  A step is   *)
(* one call to CHZZK or to S3 with the local computation that follows it.  *)
(* The line of record k of run p is the element 10 * p + k, so that the    *)
(* outputs of the two runs differ.                                         *)
(***************************************************************************)
\* the lines of a page of n records fetched by run p after `have` lines
RaceLines(p, have, n) == [k \in 1..n |-> 10 * p + have + k]

\* mp["UploadId"]: an identifier S3 has not handed out
NewUploadId(sessions) ==
    CHOOSE id \in UploadIds :
        /\ sessions[id].state = "none"
        /\ \A j \in UploadIds : j < id => sessions[j].state # "none"

\* an abort that ends every open upload of the key
AbortedSessions_OfKey(id, sessions) ==
    {j \in UploadIds : sessions[j].state = "open"}

\* abort_multipart_upload(Bucket, Key, UploadId=upload_id) ends that upload
AbortedSessions(id, sessions) == {id}

AbortIn(sessions, id) ==
    [j \in UploadIds |->
        IF j \in AbortedSessions(id, sessions)
        THEN [state |-> "aborted", parts |-> <<>>]
        ELSE sessions[j]]

\* upload_part(UploadId=id, PartNumber=n, Body=chunk)
StoreIn(sessions, id, n, chunk) ==
    [sessions EXCEPT ![id].parts = StorePart(@, n, chunk)]

\* the object complete_multipart_upload assembles from {"Parts": plist}
Assembled(sessions, id, plist) ==
    Flatten([i \in 1..Len(plist) |-> sessions[id].parts[plist[i].PartNumber]])

InitRace ==
    /\ UploadIdle
    /\ RequestIdle
    /\ BotIdle
    /\ QueueIdle
    /\ NormalizeIdle
    /\ ListIdle
    /\ ProcessIdle
    /\ ParallelIdle
    /\ HandlerIdle
    /\ r_pc = [p \in Procs |-> "create"]
    /\ r_dest \in {NoObject, OldObject}
    /\ RaceFresh

\* an exception inside the try body of run p
RRaise(p) == r_pc' = [r_pc EXCEPT ![p] = "except"]

\* create_multipart_upload
RCreate(p) ==
    /\ r_pc[p] = "create"
    /\ LET id == NewUploadId(r_sessions)
       IN  /\ r_sessions' = [r_sessions EXCEPT ![id] =
                                 [state |-> "open", parts |-> <<>>]]
           /\ r_upload_id' = [r_upload_id EXCEPT ![p] = id]
    /\ r_pc' = [r_pc EXCEPT ![p] = "fetch"]
    /\ UNCHANGED <<r_buffer, r_parts, r_pages, r_fetched, r_dest, r_writer,
                   notracev>>

\* create_multipart_upload raises: upload_id is None
RCreateFail(p) ==
    /\ r_pc[p] = "create"
    /\ RRaise(p)
    /\ UNCHANGED <<r_upload_id, r_buffer, r_parts, r_pages, r_fetched,
                   r_sessions, r_dest, r_writer, notracev>>

\* _download_json and the record loop up to the first full buffer: a page
\* of records, or a page that ends the loop
RFetch(p) ==
    /\ r_pc[p] = "fetch"
    /\ \E n \in (IF r_pages[p] < RaceMaxPages THEN 0..MaxPageLen ELSE {0}) :
          IF n = 0
          THEN /\ r_pc' = [r_pc EXCEPT ![p] = "finalize"]
               /\ UNCHANGED <<r_buffer, r_pages, r_fetched>>
          ELSE LET new == RaceLines(p, Len(r_fetched[p]), n)
               IN  /\ r_fetched' = [r_fetched EXCEPT ![p] = @ \o new]
                   /\ r_buffer' = [r_buffer EXCEPT ![p] = @ \o new]
                   /\ r_pages' = [r_pages EXCEPT ![p] = @ + 1]
                   /\ r_pc' = [r_pc EXCEPT ![p] =
                                 IF BufferFull(r_buffer'[p], RacePartSize)
                                 THEN "flush" ELSE "fetch"]
    /\ UNCHANGED <<r_upload_id, r_parts, r_sessions, r_dest, r_writer,
                   notracev>>

\* _download_json raises
RFetchFail(p) ==
    /\ r_pc[p] = "fetch"
    /\ RRaise(p)
    /\ UNCHANGED <<r_upload_id, r_buffer, r_parts, r_pages, r_fetched,
                   r_sessions, r_dest, r_writer, notracev>>

\* upload_part of a full chunk
RUploadPart(p) ==
    /\ r_pc[p] = "flush"
    /\ LET chunk == SubSeq(r_buffer[p], 1, RacePartSize)
           rest == SubSeq(r_buffer[p], RacePartSize + 1, Len(r_buffer[p]))
       IN  /\ r_sessions' = StoreIn(r_sessions, r_upload_id[p],
                                    Len(r_parts[p]) + 1, chunk)
           /\ r_parts' = [r_parts EXCEPT ![p] =
                             Append(@, [ETag |-> chunk,
                                        PartNumber |-> Len(@) + 1])]
           /\ r_buffer' = [r_buffer EXCEPT ![p] = rest]
           /\ r_pc' = [r_pc EXCEPT ![p] =
                         IF BufferFull(rest, RacePartSize)
                         THEN "flush" ELSE "fetch"]
    /\ UNCHANGED <<r_upload_id, r_pages, r_fetched, r_dest, r_writer,
                   notracev>>

\* upload_part raises
RUploadPartFail(p) ==
    /\ r_pc[p] \in {"flush", "finalize"}
    /\ r_pc[p] = "finalize" => (r_parts[p] # <<>> /\ r_buffer[p] # <<>>)
    /\ RRaise(p)
    /\ UNCHANGED <<r_upload_id, r_buffer, r_parts, r_pages, r_fetched,
                   r_sessions, r_dest, r_writer, notracev>>

\* if not parts: abort_multipart_upload, upload_id = None
RAbortSmall(p) ==
    /\ r_pc[p] = "finalize"
    /\ r_parts[p] = <<>>
    /\ r_sessions' = AbortIn(r_sessions, r_upload_id[p])
    /\ r_upload_id' = [r_upload_id EXCEPT ![p] = 0]
    /\ r_pc' = [r_pc EXCEPT ![p] = "put"]
    /\ UNCHANGED <<r_buffer, r_parts, r_pages, r_fetched, r_dest, r_writer,
                   notracev>>

\* that abort raises
RAbortSmallFail(p) ==
    /\ r_pc[p] = "finalize"
    /\ r_parts[p] = <<>>
    /\ RRaise(p)
    /\ UNCHANGED <<r_upload_id, r_buffer, r_parts, r_pages, r_fetched,
                   r_sessions, r_dest, r_writer, notracev>>

\* put_object(Body=bytes(buffer))
RPut(p) ==
    /\ r_pc[p] = "put"
    /\ r_dest' = [exists |-> TRUE, body |-> r_buffer[p]]
    /\ r_writer' = p
    /\ r_pc' = [r_pc EXCEPT ![p] = "returned"]
    /\ UNCHANGED <<r_upload_id, r_buffer, r_parts, r_pages, r_fetched,
                   r_sessions, notracev>>

\* put_object raises
RPutFail(p) ==
    /\ r_pc[p] = "put"
    /\ RRaise(p)
    /\ UNCHANGED <<r_upload_id, r_buffer, r_parts, r_pages, r_fetched,
                   r_sessions, r_dest, r_writer, notracev>>

\* else: the last part when the buffer is not empty
RFinalPart(p) ==
    /\ r_pc[p] = "finalize"
    /\ r_parts[p] # <<>>
    /\ IF r_buffer[p] # <<>>
       THEN /\ r_sessions' = StoreIn(r_sessions, r_upload_id[p],
                                     Len(r_parts[p]) + 1, r_buffer[p])
            /\ r_parts' = [r_parts EXCEPT ![p] =
                              Append(@, [ETag |-> r_buffer[p],
                                         PartNumber |-> Len(@) + 1])]
       ELSE UNCHANGED <<r_sessions, r_parts>>
    /\ r_pc' = [r_pc EXCEPT ![p] = "complete"]
    /\ UNCHANGED <<r_upload_id, r_buffer, r_pages, r_fetched, r_dest,
                   r_writer, notracev>>

\* complete_multipart_upload
RComplete(p) ==
    /\ r_pc[p] = "complete"
    /\ r_dest' = [exists |-> TRUE,
                  body |-> Assembled(r_sessions, r_upload_id[p], r_parts[p])]
    /\ r_sessions' = [r_sessions EXCEPT ![r_upload_id[p]] =
                          [state |-> "completed", parts |-> <<>>]]
    /\ r_writer' = p
    /\ r_pc' = [r_pc EXCEPT ![p] = "returned"]
    /\ UNCHANGED <<r_upload_id, r_buffer, r_parts, r_pages, r_fetched,
                   notracev>>

\* complete_multipart_upload raises
RCompleteFail(p) ==
    /\ r_pc[p] = "complete"
    /\ RRaise(p)
    /\ UNCHANGED <<r_upload_id, r_buffer, r_parts, r_pages, r_fetched,
                   r_sessions, r_dest, r_writer, notracev>>

\* except Exception: the abort when upload_id is set, then raise
RExceptAbort(p) ==
    /\ r_pc[p] = "except"
    /\ r_upload_id[p] # 0
    /\ r_sessions' = AbortIn(r_sessions, r_upload_id[p])
    /\ r_pc' = [r_pc EXCEPT ![p] = "raised"]
    /\ UNCHANGED <<r_upload_id, r_buffer, r_parts, r_pages, r_fetched,
                   r_dest, r_writer, notracev>>

\* upload_id is None, or the abort raises and is swallowed
RExceptNoAbort(p) ==
    /\ r_pc[p] = "except"
    /\ r_pc' = [r_pc EXCEPT ![p] = "raised"]
    /\ UNCHANGED <<r_upload_id, r_buffer, r_parts, r_pages, r_fetched,
                   r_sessions, r_dest, r_writer, notracev>>

NextRace ==
    \E p \in Procs :
        \/ RCreate(p)
        \/ RCreateFail(p)
        \/ RFetch(p)
        \/ RFetchFail(p)
        \/ RUploadPart(p)
        \/ RUploadPartFail(p)
        \/ RAbortSmall(p)
        \/ RAbortSmallFail(p)
        \/ RPut(p)
        \/ RPutFail(p)
        \/ RFinalPart(p)
        \/ RComplete(p)
        \/ RCompleteFail(p)
        \/ RExceptAbort(p)
        \/ RExceptNoAbort(p)

SpecRace == InitRace /\ [][NextRace]_vars

(***************************************************************************)
(* list_replays_all: the pages of a channel's replay list, from            *)
(* start_page on, until a page is empty, max_pages pages were collected    *)
(* or the page number reaches totalPages.                                  *)
(***************************************************************************)
\* max_pages: None, or an integer from 0 on
MaxPagesArgs == {NoInt} \cup {Some(m) : m \in 0..MaxListPagesArg}

\* result of _fetch_replays_page: the number of videos of the page (a
\* server that honours size) and totalPages (absent, or a number)
ListResults ==
    [videos : 0..ListSize,
     totalPages : {NoInt} \cup {Some(t) : t \in 1..MaxListRequests}]

\* if max_pages is not None and fetched_pages >= max_pages
MaxPagesReached(mp, n) == mp.set /\ n >= mp.n

\* if total_pages is not None and page >= total_pages
TotalPagesReached(tp, page) == tp.set /\ page >= tp.n

InitList ==
    /\ UploadIdle
    /\ RequestIdle
    /\ BotIdle
    /\ QueueIdle
    /\ NormalizeIdle
    /\ RaceIdle
    /\ ProcessIdle
    /\ ParallelIdle
    /\ HandlerIdle
    /\ l_pc = "fetch"
    /\ l_max_pages \in MaxPagesArgs
    /\ l_start_page \in {0, 1}
    /\ l_page = l_start_page
    /\ l_fetched_pages = 0
    /\ l_all_videos = <<>>
    /\ l_total_pages = NoInt
    /\ l_requests = 0

\* one pass of the while loop
ListFetch ==
    /\ l_pc = "fetch"
    /\ l_requests < MaxListRequests
    /\ l_requests' = l_requests + 1
    /\ \E result \in ListResults :
          /\ l_total_pages' = IF l_total_pages.set THEN l_total_pages
                              ELSE result.totalPages
          /\ IF result.videos = 0
             THEN /\ l_pc' = "returned"
                  /\ UNCHANGED <<l_all_videos, l_fetched_pages, l_page>>
             ELSE /\ l_all_videos' =
                        l_all_videos \o [k \in 1..result.videos |-> l_page]
                  /\ l_fetched_pages' = l_fetched_pages + 1
                  /\ l_page' = l_page + 1
                  /\ l_pc' = IF \/ MaxPagesReached(l_max_pages, l_fetched_pages')
                                \/ TotalPagesReached(l_total_pages', l_page')
                             THEN "returned" ELSE "fetch"
    /\ UNCHANGED <<l_max_pages, l_start_page, notlistv>>

\* _request raises ChzzkAPIError
ListFetchRaises ==
    /\ l_pc = "fetch"
    /\ l_requests < MaxListRequests
    /\ l_requests' = l_requests + 1
    /\ l_pc' = "raised"
    /\ UNCHANGED <<l_max_pages, l_start_page, l_page, l_fetched_pages,
                   l_all_videos, l_total_pages, notlistv>>

NextList ==
    \/ ListFetch
    \/ ListFetchRaises

SpecList == InitList /\ [][NextList]_vars

(***************************************************************************)
(* process_replays_chat: the first loop sorts the videoNo of the replays   *)
(* into existing_files and all_video_nos, the second calls                 *)
(* fetch_and_save_chat_data for each of all_video_nos.  A replay is its    *)
(* videoNo, 0 when it has none.                                            *)
(***************************************************************************)
\* channel.get("replays", [])
ReplayLists == {<<>>, <<1>>, <<0>>, <<1, 2>>, <<2, 1>>, <<0, 2>>, <<3, 3>>}

ChannelData == UNION {[1..n -> ReplayLists] : n \in 1..MaxChannels}

\* for replay in ...: ...; break: the loop body runs for the first replay
Visited(replays) == IF replays = <<>> THEN <<>> ELSE <<Head(replays)>>

\* if video_no
HasVideoNo(v) == v # 0

\* file_path.exists() and file_path.stat().st_size > 0
FileExists(v, files) == v \in files

RECURSIVE SelectNos(_, _, _)
SelectNos(replays, files, existing) ==
    IF replays = <<>> THEN <<>>
    ELSE (IF HasVideoNo(Head(replays))
             /\ (FileExists(Head(replays), files) <=> existing)
          THEN <<Head(replays)>> ELSE <<>>)
         \o SelectNos(Tail(replays), files, existing)

InitProcess ==
    /\ UploadIdle
    /\ RequestIdle
    /\ BotIdle
    /\ QueueIdle
    /\ NormalizeIdle
    /\ RaceIdle
    /\ ListIdle
    /\ ParallelIdle
    /\ HandlerIdle
    /\ p_pc = "collect"
    /\ p_data \in ChannelData
    /\ p_channel = 0
    /\ p_files \in SUBSET {1, 2}
    /\ p_all_video_nos = <<>>
    /\ p_existing_files = <<>>
    /\ p_fetched = <<>>

\* for channel in data: one channel
ProcessChannel ==
    /\ p_pc = "collect"
    /\ p_channel < Len(p_data)
    /\ p_channel' = p_channel + 1
    /\ LET seen == Visited(p_data[p_channel'])
       IN  /\ p_existing_files' =
                 p_existing_files \o SelectNos(seen, p_files, TRUE)
           /\ p_all_video_nos' =
                 p_all_video_nos \o SelectNos(seen, p_files, FALSE)
    /\ UNCHANGED <<p_pc, p_data, p_files, p_fetched, notprocv>>

\* the first loop has ended
ProcessCollected ==
    /\ p_pc = "collect"
    /\ p_channel = Len(p_data)
    /\ p_pc' = IF p_all_video_nos = <<>> THEN "done" ELSE "fetch"
    /\ UNCHANGED <<p_data, p_channel, p_files, p_all_video_nos,
                   p_existing_files, p_fetched, notprocv>>

\* fetch_and_save_chat_data(video_no, output_dir), which never raises
ProcessFetch ==
    /\ p_pc = "fetch"
    /\ LET v == p_all_video_nos[Len(p_fetched) + 1]
       IN  p_fetched' = Append(p_fetched, v)
    /\ p_pc' = IF Len(p_fetched') = Len(p_all_video_nos) THEN "done"
               ELSE "fetch"
    /\ UNCHANGED <<p_data, p_channel, p_files, p_all_video_nos,
                   p_existing_files, notprocv>>

NextProcess ==
    \/ ProcessChannel
    \/ ProcessCollected
    \/ ProcessFetch

SpecProcess == InitProcess /\ [][NextProcess]_vars

(***************************************************************************)
(* run_parallel_with_progress: every item is submitted to a                *)
(* ThreadPoolExecutor; the pool starts the queued calls in the order of    *)
(* submission, as many at a time as it has workers; the calls end in any   *)
(* order; the caller takes the finished futures as as_completed yields     *)
(* them and stores each result under the index of its item.                *)
(***************************************************************************)
\* the values process_func returns (never None)
Values == {"x", "y"}

\* max(1, max_workers)
WorkersOf(max_workers) == Max(1, max_workers)

\* a store that appends in the order of completion
ResultIndex_Completion(idx, k) == k

\* idx = futures[fut]; results[idx] = ...
ResultIndex(idx, k) == idx

\* fut.result(): the value, or the exception that sets None
ResultOf(o) == IF o = "raised" THEN None ELSE o

InitParallel ==
    /\ UploadIdle
    /\ RequestIdle
    /\ BotIdle
    /\ QueueIdle
    /\ NormalizeIdle
    /\ RaceIdle
    /\ ListIdle
    /\ ProcessIdle
    /\ HandlerIdle
    /\ w_pc = "running"
    /\ \E n \in 0..MaxItems : w_items = [i \in 1..n |-> i]
    /\ \E max_workers \in {0, 1, 2} : w_workers = WorkersOf(max_workers)
    /\ w_state = [i \in 1..Len(w_items) |-> "queued"]
    /\ w_outcome = [i \in 1..Len(w_items) |-> "none"]
    /\ w_results = [i \in 1..Len(w_items) |-> None]
    /\ w_order = <<>>

\* a worker takes the oldest queued call
WorkerStart ==
    /\ w_pc = "running"
    /\ Cardinality({j \in DOMAIN w_state : w_state[j] = "running"}) < w_workers
    /\ \E i \in DOMAIN w_state :
          /\ w_state[i] = "queued"
          /\ \A j \in 1..(i - 1) : w_state[j] # "queued"
          /\ w_state' = [w_state EXCEPT ![i] = "running"]
    /\ UNCHANGED <<w_pc, w_items, w_workers, w_outcome, w_results, w_order,
                   notparv>>

\* process_with_progress(item) returns a value or raises
WorkerFinish ==
    /\ w_pc = "running"
    /\ \E i \in DOMAIN w_state :
          /\ w_state[i] = "running"
          /\ w_state' = [w_state EXCEPT ![i] = "finished"]
          /\ \E o \in Values \cup {"raised"} :
                w_outcome' = [w_outcome EXCEPT ![i] = o]
    /\ UNCHANGED <<w_pc, w_items, w_workers, w_results, w_order, notparv>>

\* one pass of `for fut in as_completed(futures)`
Collect ==
    /\ w_pc = "running"
    /\ \E i \in DOMAIN w_state :
          /\ w_state[i] = "finished"
          /\ \A k \in 1..Len(w_order) : w_order[k] # i
          /\ w_order' = Append(w_order, i)
          /\ w_results' =
                [w_results EXCEPT ![ResultIndex(i, Len(w_order'))] =
                    ResultOf(w_outcome[i])]
    /\ UNCHANGED <<w_pc, w_items, w_workers, w_state, w_outcome, notparv>>

\* every future was yielded: the executor is shut down, return results
ParallelReturn ==
    /\ w_pc = "running"
    /\ Len(w_order) = Len(w_items)
    /\ w_pc' = "returned"
    /\ UNCHANGED <<w_items, w_workers, w_state, w_outcome, w_results, w_order,
                   notparv>>

NextParallel ==
    \/ WorkerStart
    \/ WorkerFinish
    \/ Collect
    \/ ParallelReturn

SpecParallel == InitParallel /\ [][NextParallel]_vars

(***************************************************************************)
(* handler of extract-chat-from-video.py: the body of the first record is  *)
(* parsed, the video id and the output prefix are read from the message,   *)
(* the key is built and _upload_chatlog_to_s3 is called.  The body is a    *)
(* dict (an event built by hand), the JSON text of an object, or a bare    *)
(* text: no JSON, all digits, or a quoted text.                            *)
(***************************************************************************)
VideoIdFields == {NoField, " ", "v1", "11050592"}

PrefixFields == {NoField, "out", "out/"}

BareTexts == {"", "v1", "11050592", "\"v1\""}

HandlerBodies ==
    [form : {"dict", "text"}, video_id : VideoIdFields, prefix : PrefixFields]
    \cup [form : {"bare"}, video_id : BareTexts, prefix : {NoField}]

\* what json.loads makes of a bare text: digits are a JSON number, a quoted
\* text is a JSON string, the empty text and an unquoted word are no JSON
JsonKind(text) ==
    CASE text = "11050592" -> "int"
      [] text = "\"v1\""   -> "str"
      [] OTHER             -> "invalid"

\* msg = json.loads(body) if isinstance(body, str) else body, and
\* msg = {"video_id": str(body)} when json.loads raises
Loads(body) ==
    IF body.form \in {"dict", "text"}
    THEN [type |-> "dict", video_id |-> body.video_id, prefix |-> body.prefix]
    ELSE IF JsonKind(body.video_id) = "invalid"
    THEN [type |-> "dict", video_id |-> body.video_id, prefix |-> NoField]
    ELSE [type |-> JsonKind(body.video_id), video_id |-> NoField,
          prefix |-> NoField]

\* msg.get(name, default)
MsgGet(field, default) == IF field = NoField THEN default ELSE field

\* os.environ.get("CHATLOG_PREFIX", "raw/chats/")
PrefixEnvs == {"raw/chats/", "env"}

EndsWithSlash(text) == text \in {"raw/chats/", "out/"}

\* _get_output_target: the prefix of the message when it is a text that is
\* not blank, else the environment's; stripped, with a "/" at its end
OutputPrefix(field, env) ==
    LET chosen == IF field = NoField \/ StrStrip(field) = "" THEN env ELSE field
        stripped == StrStrip(chosen)
    IN  IF EndsWithSlash(stripped) THEN stripped ELSE stripped \o "/"

\* f"{out_prefix}chatLog-{video_id}.log"
KeyOf(out_prefix, video_id) == out_prefix \o "chatLog-" \o video_id \o ".log"

InitHandler ==
    /\ UploadIdle
    /\ RequestIdle
    /\ BotIdle
    /\ QueueIdle
    /\ NormalizeIdle
    /\ RaceIdle
    /\ ListIdle
    /\ ProcessIdle
    /\ ParallelIdle
    /\ h_pc = "records"
    /\ h_body = NoBody
    /\ h_msg = NoMsg
    /\ h_video_id = ""
    /\ h_key = ""
    /\ h_err = "none"

\* records = event.get("Records", []); body = records[0].get("body", "")
HRecords ==
    /\ h_pc = "records"
    /\ \/ /\ h_pc' = "no_records"
          /\ UNCHANGED h_body
       \/ /\ h_body' \in HandlerBodies
          /\ h_pc' = "loads"
    /\ UNCHANGED <<h_msg, h_video_id, h_key, h_err, nothandlerv>>

HLoads ==
    /\ h_pc = "loads"
    /\ h_msg' = Loads(h_body)
    /\ h_pc' = "video_id"
    /\ UNCHANGED <<h_body, h_video_id, h_key, h_err, nothandlerv>>

\* video_id = str(msg.get("video_id", "")).strip(): an int and a str have
\* no get
HVideoId ==
    /\ h_pc = "video_id"
    /\ IF h_msg.type # "dict"
       THEN /\ h_pc' = "raised"
            /\ h_err' = "AttributeError"
            /\ UNCHANGED h_video_id
       ELSE /\ h_video_id' = StrStrip(MsgGet(h_msg.video_id, ""))
            /\ IF h_video_id' = ""
               THEN /\ h_pc' = "raised"
                    /\ h_err' = "ValueError"
               ELSE /\ h_pc' = "target"
                    /\ UNCHANGED h_err
    /\ UNCHANGED <<h_body, h_msg, h_key, nothandlerv>>

HTarget ==
    /\ h_pc = "target"
    /\ \E env \in PrefixEnvs :
          h_key' = KeyOf(OutputPrefix(h_msg.prefix, env), h_video_id)
    /\ h_pc' = "upload"
    /\ UNCHANGED <<h_body, h_msg, h_video_id, h_err, nothandlerv>>

\* stats = _upload_chatlog_to_s3(video_id, out_bucket, key): it returns the
\* counters or raises
HUpload ==
    /\ h_pc = "upload"
    /\ \/ /\ h_pc' = "returned"
          /\ UNCHANGED h_err
       \/ /\ h_pc' = "raised"
          /\ h_err' = "Upload"
    /\ UNCHANGED <<h_body, h_msg, h_video_id, h_key, nothandlerv>>

NextHandler ==
    \/ HRecords
    \/ HLoads
    \/ HVideoId
    \/ HTarget
    \/ HUpload

SpecHandler == InitHandler /\ [][NextHandler]_vars


(***************************************************************************)
(* Properties.                                                             *)
(***************************************************************************)
Configured == pc \notin {"handler", "no_records", "config"} /\ err # "ValueError"

\* the complete output of the run: the bytes of every fetched line
Expected == Flatten(fetched)

CeilDiv(a, b) == (a + b - 1) \div b

\* C1: when an Exception leaves the function after the session was opened,
\* the except clause has called abort_multipart_upload on a session that was
\* still open: a session is open at that point only when S3 failed that
\* very abort call, and the clause skips the abort only when no session is
\* open (none was created, or finalize had aborted it already).
C1_AbortOnEveryError ==
    pc = "raised" =>
        /\ session = "open" => cleanup = "abort_failed"
        /\ cleanup = "skipped" => session \in {"none", "aborted"}
        /\ cleanup \in {"aborted", "abort_failed"} => calls["abort"] >= 1

\* an upload_part failed after parts were committed and the session was aborted
C1_Witness ==
    /\ pc = "raised"
    /\ err = "UploadPart"
    /\ loopParts >= 1
    /\ cleanup = "aborted"
    /\ session = "aborted"

\* C2: in every state the destination holds its pre-run content or the
\* run's complete output; it changes only with the final put_object or
\* complete_multipart_upload, after which the run has returned; a run that
\* ends in an error or is cancelled leaves the destination as it was.
C2_DestinationAllOrNothing ==
    /\ dest # dest0 =>
          /\ pc = "returned"
          /\ dest = [exists |-> TRUE, body |-> Expected]
    /\ pc = "returned" => dest = [exists |-> TRUE, body |-> Expected]
    /\ pc \in {"except", "raised", "cancelled"} => dest = dest0
    /\ calls["put"] + calls["complete"] <= 1
    /\ calls["put"] + calls["complete"] = 1 =>
          pc \in {"returned", "except", "raised", "cancelled"}

\* the completion failed after two parts were uploaded over an existing object
C2_Witness ==
    /\ pc = "raised"
    /\ err = "Complete"
    /\ Len(parts) >= 2
    /\ dest0 = OldObject
    /\ dest = OldObject

\* C3 (as claimed): a run cancelled with an open session has had
\* abort_multipart_upload executed for that session before it ends.
C3_AbortOnCancel ==
    pc = "cancelled" /\ session = "open" => cleanup = "abort_failed"

\* C4: the object of a successful run is the concatenation of the lines of
\* all fetched records that were not dropped, in arrival order, on the
\* direct path and on the multipart path.
C4_ObjectIsConcatenation ==
    pc = "returned" =>
        /\ dest.exists
        /\ dest.body = Expected
        /\ session = "completed" => dest.body = CompleteObject(parts, uploaded)

\* two pages, four lines, three parts
C4_Witness ==
    /\ pc = "returned"
    /\ session = "completed"
    /\ pages >= 2
    /\ Len(parts) >= 3
    /\ Len(fetched) >= 4

\* C5: the object of a successful run with part size P is the object the
\* same lines give with part size 2P.
C5_ChunkingInvariance ==
    pc = "returned" =>
        /\ dest.body = RunObject(fetched, part_size)
        /\ dest.body = RunObject(fetched, 2 * part_size)

\* multipart under P, a direct write under 2P
C5_Witness ==
    /\ pc = "returned"
    /\ session = "completed"
    /\ total_bytes >= part_size
    /\ total_bytes < 2 * part_size

\* C6: part numbers are 1..n in order; every part committed in the page
\* loop has exactly part_size bytes and only the part uploaded at finalize
\* may be smaller; the part size is at least 5 MiB for every setting.
C6_PartsContiguousAndSized ==
    /\ Configured => part_size >= MinPartSizeMB * UnitsPerMiB
    /\ \A i \in 1..Len(parts) :
          /\ parts[i].PartNumber = i
          /\ i \in DOMAIN uploaded
          /\ uploaded[i] = parts[i].ETag
          /\ i <= loopParts => Len(parts[i].ETag) = part_size
          /\ i > loopParts =>
                /\ i = Len(parts)
                /\ pc \in {"complete", "returned", "except", "raised",
                           "cancelled"}
                /\ Len(parts[i].ETag) <= part_size
    /\ Len(parts) \in {loopParts, loopParts + 1}
    /\ part_number = loopParts + 1

\* two full parts and a smaller last one, under the 5 MiB floor
C6_Witness ==
    /\ pc = "returned"
    /\ part_size = MinPartSizeMB * UnitsPerMiB
    /\ loopParts = 2
    /\ Len(parts) = 3
    /\ Len(parts[3].ETag) < part_size

\* C7: a run whose output stays below one part size issues no upload_part
\* and no complete_multipart_upload; it writes only after the session was
\* aborted, and when it returns it has made exactly one put_object, whose
\* body is the whole buffer.
C7_SmallOutputDirectWrite ==
    (Configured /\ total_bytes < part_size) =>
        /\ loopParts = 0
        /\ calls["upload_part"] = 0
        /\ calls["complete"] = 0
        /\ calls["put"] >= 1 => session = "aborted" /\ upload_id = None
        /\ pc = "returned" =>
              /\ calls["put"] = 1
              /\ calls["abort"] = 1
              /\ session = "aborted"
              /\ dest.body = buffer
              /\ Len(buffer) = total_bytes

\* 3 MiB of output under the 5 MiB floor
C7_Witness ==
    /\ pc = "returned"
    /\ part_size = 5 * UnitsPerMiB
    /\ total_bytes = 3 * UnitsPerMiB
    /\ calls["put"] = 1

\* C8: a successful run whose output T is at least the part size P has
\* committed ceil(T/P) parts, T div P of them of P bytes and then, only when
\* T mod P > 0, one of T mod P bytes, never an empty one; it has issued one
\* complete_multipart_upload over the whole list and no put_object.
C8_PartCountAndSizes ==
    (pc = "returned" /\ total_bytes >= part_size) =>
        /\ Len(parts) = CeilDiv(total_bytes, part_size)
        /\ loopParts = total_bytes \div part_size
        /\ \A i \in 1..Len(parts) :
              /\ parts[i].PartNumber = i
              /\ Len(parts[i].ETag) > 0
              /\ i <= total_bytes \div part_size =>
                    Len(parts[i].ETag) = part_size
              /\ i > total_bytes \div part_size =>
                    Len(parts[i].ETag) = total_bytes % part_size
        /\ calls["upload_part"] = Len(parts)
        /\ calls["complete"] = 1
        /\ calls["put"] = 0
        /\ session = "completed"
        /\ Len(dest.body) = total_bytes

\* 12 MiB with a part size of 8 MiB: parts of 8 MiB and 4 MiB
C8_Witness ==
    /\ pc = "returned"
    /\ part_size = 8 * UnitsPerMiB
    /\ total_bytes = 12 * UnitsPerMiB
    /\ Len(parts) = 2
    /\ Len(parts[1].ETag) = 8 * UnitsPerMiB
    /\ Len(parts[2].ETag) = 4 * UnitsPerMiB
    /\ calls["complete"] = 1

\* C9: once a counted page has returned, as its next cursor, the cursor it
\* was requested with, no further page request is issued and the run goes
\* on to finalize.
C9_StallStops ==
    stallReq > 0 =>
        /\ calls["request"] = stallReq
        /\ cursor = last_next
        /\ pc \in {"finalize", "put", "complete", "returned", "except",
                   "raised", "cancelled"}

\* the second page repeats the cursor of the first and the run finalizes
C9_Witness ==
    /\ stallReq = 2
    /\ pages = 2
    /\ cursor = "1"
    /\ pc = "finalize"

\* C10 (as claimed): no run returns success statistics with the page
\* counter at the ceiling.
C10_NoSuccessAtCeiling ==
    pc = "returned" => pages < max_pages

\* C10 (amended): a run that is back at the top of the page loop with the
\* page counter at or above CHZZK_MAX_PAGES issues no further request and
\* raises the ceiling error, which no other end of the loop raises: the
\* destination is not written, abort is called on the session; no run
\* issues more than CHZZK_MAX_PAGES requests or returns more pages.
C10_CeilingIsFatal ==
    /\ Configured => calls["request"] <= Max(max_pages, 0)
    /\ Configured => pages <= Max(max_pages, 0)
    /\ pc = "loop" /\ pages >= max_pages => ~ENABLED FetchPage
    /\ err = "MaxPages" =>
          /\ pc \in {"except", "raised"}
          /\ pages >= max_pages
          /\ calls["put"] = 0
          /\ calls["complete"] = 0
          /\ dest = dest0
          /\ pc = "raised" => cleanup \in {"aborted", "abort_failed"}
    /\ pc = "returned" => err = "none"

\* two pages were counted under a ceiling of 2 and the third request was refused
C10_Witness ==
    /\ pc = "raised"
    /\ err = "MaxPages"
    /\ max_pages = 2
    /\ pages = 2
    /\ calls["request"] = 2
    /\ cleanup = "aborted"
    /\ session = "aborted"

\* C11: when the first page brings records and a fresh cursor and the second
\* page brings no record, the run returns after two page requests with
\* lines = the number of records and pages = 2 (the empty page is counted).
C11_EmptyPageCounted ==
    (/\ pc = "returned"
     /\ stop = "empty"
     /\ calls["request"] = 2
     /\ fetched # <<>>)
        => /\ lines = Len(fetched)
           /\ pages = 2

\* C13: a work item whose destination object exists and is not empty is
\* skipped: no multipart session, no page request, no write, the object is
\* left as it was.
C13_ExistingObjectSkipped ==
    (dest0.exists /\ dest0.body # <<>>) =>
        /\ \A op \in CallNames : calls[op] = 0
        /\ session = "none"
        /\ dest = dest0

\* C20: a page request that meets HTTP 429 or a 5xx status is issued again
\* for the same cursor before the run fails: a run that fails on such a
\* status has asked for the failing page at least twice (every earlier page
\* was counted and took one request).
C20_TransientPageRetried ==
    (pc \in {"except", "raised"} /\ err \in TransientErrors) =>
        calls["request"] >= pages + 2

\* C17: _request issues at most max_retries calls and at most max_retries
\* waits; every retry is preceded by a wait (when the loop is about to call
\* again, one wait was made per failed attempt so far) and the i-th wait of
\* the request lasts backoff * 2^(i-1).
C17_BoundedBackoff ==
    /\ rq_calls <= max_retries
    /\ Len(waits) <= max_retries
    /\ (rq_pc = "get" /\ attempt < max_retries) => Len(waits) = attempt
    /\ \A i \in 1..Len(waits) : waits[i] = backoff * Pow2(i - 1)

\* C18 as stated: a 429 or any 5xx response is fatal only by exhaustion of
\* the max_retries attempts.
C18_Every5xxTransient ==
    LET status == response.status_code
    IN  (rq_pc = "raised" /\ (status = 429 \/ status \in 500..599)) =>
            /\ rq_err = "ChzzkAPIError_retries"
            /\ rq_calls = max_retries

\* C18, amended: a 429, 500, 502 or 503 response is followed by the wait
\* backoff * 2^attempt and then by the next attempt, and ends the request
\* only through the exhaustion of the max_retries attempts; any other 5xx
\* response (501, 504) is fatal at once with the HTTPError of
\* raise_for_status.
C18_RetriedStatusesTransient ==
    LET status == response.status_code
    IN  /\ status \in {429, 500, 502, 503} =>
            /\ rq_pc \in {"sleep", "get", "raised"}
            /\ rq_pc = "get" =>
                  /\ waits # <<>>
                  /\ waits[Len(waits)] = backoff * Pow2(attempt - 1)
            /\ rq_pc = "raised" =>
                  /\ rq_err = "ChzzkAPIError_retries"
                  /\ attempt = max_retries
                  /\ rq_calls = max_retries
        /\ (status \in 500..599 /\ status \notin {500, 502, 503}) =>
            /\ rq_pc = "raised"
            /\ rq_err = "HTTPError"

\* three attempts all answered 503: three waits, then the exhaustion error
C18_Witness ==
    /\ rq_pc = "raised"
    /\ rq_err = "ChzzkAPIError_retries"
    /\ response.status_code = 503
    /\ rq_calls = 3
    /\ Len(waits) = 3

\* C19: a response that is neither a success nor in the retried set (a
\* status other than 200, 429, 500, 502, 503, or a 200 whose body code is
\* not 200) ends the request with an error on that attempt: the loop is
\* never about to call again after such a response.
C19_NonTransientFatal ==
    LET status == response.status_code
    IN  /\ (response # NoResponse /\ status \notin {200, 429, 500, 502, 503})
              => (rq_pc = "raised" \/ (rq_pc = "get" /\ attempt >= max_retries))
        /\ (status = 200 /\ response.code # 200)
              => (rq_pc = "raised" /\ rq_err = "ChzzkAPIError_code")

\* C12: a call of fetch_and_save_chat_data that finds its file present with
\* size > 0 issues no HTTP request and leaves the file as it was: it ends
\* skipped; so a second call after a first one that saved a non-empty log
\* changes nothing.
C12_NonEmptyFileSkipped ==
    (file0.exists /\ file0.body # <<>>) =>
        /\ bot_requests = 0
        /\ file = file0
        /\ bot_pc \in {"check", "done"}
        /\ bot_pc = "done" => outcome = "skipped"

\* a first call saved two lines, the second call was skipped
C12_Witness ==
    /\ runs = 2
    /\ prev = "saved"
    /\ bot_pc = "done"
    /\ outcome = "skipped"
    /\ Len(file.body) = 2
    /\ bot_requests = 0

\* C14: a call that fails part-way leaves no non-empty file behind, and
\* the call that follows a failed call is not skipped.
C14_NoHalfFinishedFile ==
    /\ (bot_pc = "done" /\ outcome = "error") =>
            ~(file.exists /\ file.body # <<>>)
    /\ outcome = "skipped" => prev # "error"

\* C15: the video ids SQS accepted are ids of replays of the channels JSON
\* that carry a videoNo and an end time not older than RECENT_DAYS, and no
\* id of the manifest is among them; no id is sent twice; when the handler
\* returns, the ids sent are exactly that difference.
C15_ExactDifference ==
    LET recent == { Digits(x.videoNo.n) :
                      x \in { y \in channels :
                                /\ y.videoNo.kind # "none"
                                /\ y.end.kind = "time"
                                /\ y.end.day >= NowDay - recent_days } }
        todo == recent \ have_ids
        sentIds == { sent[i] : i \in 1..Len(sent) }
    IN  /\ sentIds \subseteq todo
        /\ \A i, j \in 1..Len(sent) : sent[i] = sent[j] => i = j
        /\ q_pc = "returned" => sentIds = todo

\* RECENT_DAYS unset: of the recent ids 1, 2, 3 the manifest holds 2, one
\* replay is too old, and the ids 1 and 3 are sent
C15_Witness ==
    /\ q_pc = "returned"
    /\ Len(sent) = 2
    /\ Digits(2) \in have_ids
    /\ Digits(2) \in all_video_ids
    /\ \E x \in channels : x.end.kind = "time" /\ TooOld(x.end, recent_days)

\* C16 as stated: the names of a manifest give the same identifier set
\* whether the document is a list of names, a list of objects with a
\* filename or a list of objects with a key.
C16_ShapesAgree ==
    chatlists.envelope = "list" =>
        \A k \in ItemKinds :
            LoadHaveIds([chatlists EXCEPT !.kind = k]) = have_ids

AcceptedShapes ==
    { <<"list", "name">>, <<"items", "name">>, <<"items", "filename">>,
      <<"items", "key">> }

\* C16, amended: the names of a manifest give the same identifier set as a
\* list of names (the document itself, or its "items") and as the "items"
\* of a document whose objects carry a filename or a key; a document that
\* is itself a list of objects gives the empty set.
C16_EnvelopedShapesAgree ==
    /\ <<chatlists.envelope, chatlists.kind>> \in AcceptedShapes =>
          \A sh \in AcceptedShapes :
              LoadHaveIds([envelope |-> sh[1], kind |-> sh[2],
                           names |-> chatlists.names]) = have_ids
    /\ (chatlists.envelope = "list" /\ chatlists.kind # "name") =>
          have_ids = {}

\* the four names given as objects with a key under "items"
C16_Witness ==
    /\ chatlists.envelope = "items"
    /\ chatlists.kind = "key"
    /\ chatlists.names = NameUniverse
    /\ Cardinality(have_ids) = 4

\* C21: no record of a page makes the run fail: whatever its timestamp and
\* profile, the record gives one line or is dropped, and no exception
\* leaves the loop over the records.
C21_RecordNeverFails == err # "Normalize"

\* C26: a work item without video_id or an integer setting that is no
\* integer ends the invocation with ValueError before any call to S3 or to
\* CHZZK: no session, no request, no write, and no cleanup to do.
C26_ConfigErrorImmediate ==
    /\ env_ok = "bad" => (pc = "raised" /\ err = "ValueError")
    /\ (pc = "raised" /\ err = "ValueError") =>
          /\ \A op \in CallNames : calls[op] = 0
          /\ session = "none"
          /\ dest = dest0
          /\ cleanup = "none"

\* a setting that is no integer, over an existing object
C26_Witness ==
    /\ pc = "raised"
    /\ err = "ValueError"
    /\ env_ok = "bad"
    /\ dest0 = OldObject

\* C28: a page response whose code is not 200 ends the page loop: the run
\* is never again in the loop, that request is the last one (every earlier
\* page was counted), no error of the page loop is raised, and a run that
\* returns has written the lines of the earlier pages as the object.
C28_NonSuccessStops ==
    stop = "code" =>
        /\ pc \notin {"loop", "records", "flush"}
        /\ calls["request"] = pages + 1
        /\ err \notin DownloadErrors \cup {"MaxPages", "Normalize"}
        /\ pc = "returned" =>
              /\ dest = [exists |-> TRUE, body |-> Expected]
              /\ lines = Len(fetched)

\* a first page of records, then a page whose code is not 200
C28_Witness ==
    /\ pc = "returned"
    /\ stop = "code"
    /\ pages = 1
    /\ calls["request"] = 2
    /\ lines >= 1
    /\ dest.body = Expected

\* C29: when the run is at the top of the page loop, every record of the
\* pages fetched so far is in the committed parts or in the buffer, in
\* order, and no record is pending; the buffer is shorter than one part
\* there and after each record.
C29_SequentialSteps ==
    LET committed == Flatten([i \in 1..Len(parts) |-> parts[i].ETag])
    IN  /\ pc \in {"loop", "records"} => Len(buffer) < part_size
        /\ pc = "loop" =>
              /\ chats = <<>>
              /\ lines = Len(fetched)
              /\ committed \o buffer = Expected
              /\ \A i \in 1..Len(parts) :
                    /\ i \in DOMAIN uploaded
                    /\ uploaded[i] = parts[i].ETag

\* back at the top of the loop after a page that filled a part
C29_Witness ==
    /\ pc = "loop"
    /\ pages = 1
    /\ loopParts >= 1
    /\ buffer # <<>>

C27_ExtractedNeverRequeued ==
    (/\ q_pc # "manifest"
     /\ \E names \in SUBSET NameUniverse :
           /\ ObjectName(1) \in names
           /\ chatlists = S3ListsManifest(names))
    => /\ Digits(1) \in have_ids
       /\ \A i \in 1..Len(sent) : sent[i] # Digits(1)

\* the record of the example: 1700000000000 ms, profile {"nickname":"abc"},
\* content "hello\nworld", userIdHash "h1"
ExampleChat ==
    [isdict |-> TRUE,
     messageTime |-> [kind |-> "num", hi |-> 1700000, lo |-> 0],
     profile |-> [kind |-> "object",
                  nickname |-> [has |-> "str", s |-> <<"abc">>]],
     content |-> [has |-> "str", s |-> <<"hello", "\n", "world">>],
     userIdHash |-> [has |-> "str", s |-> <<"h1">>]]

\* C22 as stated: _safe_nickname raises nothing; it gives "Unknown" for a
\* profile that is absent, "null" or a text that does not parse as a JSON
\* object, and for an object without nickname; it gives the nested
\* nickname of an object that has one.
C22_FallbackOrNickname ==
    /\ n_err # "RecursionError"
    /\ n_pc \in {"fields", "line", "appended"} =>
          LET p == n_chat.profile
          IN  /\ p.kind \in {"absent", "null", "badjson", "nonobject"} =>
                    n_nickname = <<"Unknown">>
              /\ (p.kind = "object" /\ p.nickname.has = "absent") =>
                    n_nickname = <<"Unknown">>
              /\ (p.kind = "object" /\ p.nickname.has = "str") =>
                    n_nickname = p.nickname.s

\* C23 as stated: the example record normalizes to the line
\* [2023-11-14 22:13:20] abc: hello world (h1).
C23_ExampleLineAsStated ==
    (n_pc = "appended" /\ n_chat = ExampleChat) =>
        Join(n_line) = "[2023-11-14 22:13:20] abc: hello world (h1)\n"

\* C23, amended: the time of the line is the wall clock of UTC+9, so the
\* example record normalizes to [2023-11-15 07:13:20] abc: hello world (h1);
\* the epoch is 09:00:00, the millisecond before it 08:59:59, and the day
\* after 2000-02-28 is 2000-02-29.
C23_ExampleLine ==
    LET t == n_chat.messageTime
    IN  /\ (n_pc = "appended" /\ n_chat = ExampleChat) =>
              Join(n_line) = "[2023-11-15 07:13:20] abc: hello world (h1)\n"
        /\ (n_pc = "appended" /\ t.kind = "num") =>
              /\ (t.hi = 0 /\ t.lo = 0) => n_time = "1970-01-01 09:00:00"
              /\ (t.hi = -1 /\ t.lo = 999999) => n_time = "1970-01-01 08:59:59"
              /\ (t.hi = 951749 /\ t.lo = 999999) =>
                    n_time = "2000-02-28 23:59:59"
              /\ (t.hi = 951750 /\ t.lo = 0) => n_time = "2000-02-29 00:00:00"
              /\ Head(n_line) = "[" \o n_time \o "] "
              /\ n_line[Len(n_line)] = "\n"

\* the example record, normalized
C23_Witness ==
    /\ n_pc = "appended"
    /\ n_chat = ExampleChat
    /\ n_time = "2023-11-15 07:13:20"

\* C24: the line of a record holds one line break, its last character.
C24_OneLineBreak ==
    n_pc = "appended" =>
        /\ n_line[Len(n_line)] = "\n"
        /\ Cardinality({i \in DOMAIN n_line : n_line[i] = "\n"}) = 1

\* C25: two concurrent runs on one key.  Each run that holds an upload
\* holds one of its own, open, whose stored parts are the parts that run
\* uploaded, whatever the other run does (its aborts included); the
\* buffer and parts of a run hold exactly its own lines; and the object
\* at the key is the one found at the start, or the complete output of
\* the run that wrote last, never a mixture.
C25_RunsIndependent ==
    /\ \A p \in {1, 2} :
          /\ r_pc[p] \in {"fetch", "flush", "finalize", "complete"} =>
                /\ r_upload_id[p] \in {1, 2}
                /\ r_sessions[r_upload_id[p]].state = "open"
                /\ r_sessions[r_upload_id[p]].parts =
                      [i \in 1..Len(r_parts[p]) |-> r_parts[p][i].ETag]
                /\ r_pc[p] # "complete" =>
                      Flatten([i \in 1..Len(r_parts[p]) |-> r_parts[p][i].ETag])
                          \o r_buffer[p] = r_fetched[p]
          /\ \A i \in 1..Len(r_fetched[p]) : r_fetched[p][i] = 10 * p + i
    /\ (r_upload_id[1] # 0 /\ r_upload_id[2] # 0) =>
          r_upload_id[1] # r_upload_id[2]
    /\ IF r_writer = 0
       THEN r_dest \in {[exists |-> FALSE, body |-> <<>>],
                        [exists |-> TRUE, body |-> <<9>>]}
       ELSE /\ r_pc[r_writer] = "returned"
            /\ r_dest = [exists |-> TRUE, body |-> r_fetched[r_writer]]

\* both runs have ended: run 1 completed a multipart upload of two parts
\* or more, run 2 wrote first with put_object and lost, and their outputs
\* differ in length
C25_Witness ==
    /\ r_pc[1] = "returned"
    /\ r_pc[2] = "returned"
    /\ r_writer = 1
    /\ Len(r_parts[1]) >= 2
    /\ r_parts[2] = <<>>
    /\ r_fetched[2] # <<>>
    /\ r_sessions[r_upload_id[1]].state = "completed"

\* C31: after a page whose nextPlayerMessageTime is the cursor it was
\* requested with, or the empty text, the call issues no further request.
C31_BotStallStops ==
    bot_stall # 0 => bot_requests = bot_stall

\* C32: with max_pages = m the call fetches at most m pages, reports at
\* most m fetched pages and returns at most m * size videos.
C32_AtMostMaxPages ==
    l_max_pages.set =>
        /\ l_requests <= l_max_pages.n
        /\ l_fetched_pages <= l_max_pages.n
        /\ Len(l_all_videos) <= l_max_pages.n * ListSize

\* C33: when process_replays_chat has ended, every replay with a videoNo
\* of every channel has its file already, or fetch_and_save_chat_data was
\* called for its videoNo.
C33_EveryReplayFetched ==
    p_pc = "done" =>
        \A c \in 1..Len(p_data) : \A i \in 1..Len(p_data[c]) :
            LET v == p_data[c][i]
            IN  v # 0 =>
                    \/ v \in p_files
                    \/ \E k \in 1..Len(p_fetched) : p_fetched[k] = v

\* C34: results has the length of items; the entry of an item whose
\* future was taken is the value process_func returned for it, or None
\* when it raised, whatever the order of completion; the entry of another
\* item is still None; the call returns when every item has finished and
\* every future was taken.
C34_OrderPreserved ==
    /\ Len(w_results) = Len(w_items)
    /\ \A i \in 1..Len(w_items) :
          IF \E k \in 1..Len(w_order) : w_order[k] = i
          THEN /\ w_state[i] = "finished"
               /\ w_outcome[i] = "raised" => w_results[i] = "<None>"
               /\ w_outcome[i] # "raised" => w_results[i] = w_outcome[i]
          ELSE w_results[i] = "<None>"
    /\ w_pc = "returned" =>
          \A i \in 1..Len(w_items) :
              /\ w_state[i] = "finished"
              /\ \E k \in 1..Len(w_order) : w_order[k] = i

\* three items on two workers: the second finished first and raised, the
\* first and the third returned different values
C34_Witness ==
    /\ w_pc = "returned"
    /\ Len(w_items) = 3
    /\ w_workers = 2
    /\ w_order[1] = 2
    /\ w_outcome = <<"x", "raised", "y">>
    /\ w_results = <<"x", "<None>", "y">>

\* the invocation has ended
UploadEnded == pc \in {"no_records", "returned", "raised", "cancelled"}

\* the run is at the top of the loop with a ceiling above the number of
\* pages the model serves, and every page the model serves was requested
BeyondHorizon ==
    /\ pc = "loop"
    /\ max_pages > MaxRequests
    /\ calls["request"] = MaxRequests

\* C35: a run never issues more page requests than CHZZK_MAX_PAGES, and
\* every run ends, with statistics or with an error, whatever the server
\* answers, cursors that never repeat their predecessor included (a run
\* whose ceiling is above the pages the model serves is followed up to the
\* last page served).
C35_BoundedAndTerminates ==
    /\ [](Configured => calls["request"] <= (IF max_pages > 0 THEN max_pages ELSE 0))
    /\ <>(UploadEnded \/ BeyondHorizon)

\* a run under a ceiling of 2 whose two pages carried the cursors "1" and
\* "0", each new to its request, ended by the ceiling
C35_Witness ==
    /\ pc = "raised"
    /\ err = "MaxPages"
    /\ max_pages = 2
    /\ calls["request"] = 2
    /\ stallReq = 0
    /\ cursor = "0"
    /\ last_next = "1"

\* the newline-terminated lines a text holds
LinesIn(pieces) == Cardinality({i \in DOMAIN pieces : pieces[i] = "\n"})

\* C36: after a record was processed the counters agree with what was
\* stored: total_bytes grew by the bytes appended and lines by the lines
\* appended.
C36_CountersMatchStored ==
    n_pc = "appended" =>
        /\ n_total_bytes = Len(Join(n_line))
        /\ n_lines = LinesIn(n_line)

\* C37: the session has one terminal step.  Once it is aborted or completed
\* it stays so (never both), no upload_part, complete or abort call is issued
\* after that, and none is issued before create_multipart_upload succeeded.
C37_SingleTerminalStep ==
    [][/\ session \in {"aborted", "completed"} => session' = session
       /\ session # "open" =>
             /\ calls'["upload_part"] = calls["upload_part"]
             /\ calls'["complete"] = calls["complete"]
             /\ calls'["abort"] = calls["abort"]]_vars

\* the direct write failed after the session was aborted: the handler ran
\* and issued no second abort
C37_Witness ==
    /\ pc = "raised"
    /\ err = "Put"
    /\ session = "aborted"
    /\ calls["abort"] = 1
    /\ calls["put"] = 1

\* C38: the handler changes nothing about the error: the one that leaves is
\* the one the body raised, also when the cleanup abort failed.
C38_OriginalErrorPropagates ==
    [][(pc = "except" /\ pc' = "raised") => err' = err]_vars

\* a part upload failed and then the cleanup abort failed too
C38_Witness ==
    /\ pc = "raised"
    /\ cleanup = "abort_failed"
    /\ err = "UploadPart"
    /\ session = "open"

\* the message bodies of a list of batches, in the order they were sent
RECURSIVE Bodies(_)
Bodies(bs) ==
    IF bs = <<>> THEN <<>>
    ELSE [j \in 1..Len(Head(bs)) |-> Head(bs)[j].MessageBody] \o Bodies(Tail(bs))

\* C39: the batches hold at most 10 entries with distinct Ids and carry the
\* messages once each in input order; a batch with a failed entry is the
\* last one sent, and the batches before it stay enqueued.
C39_BatchesInOrder ==
    /\ \A k \in 1..Len(q_batches) :
          /\ Len(q_batches[k]) \in 1..10
          /\ \A i, j \in 1..Len(q_batches[k]) :
                q_batches[k][i].Id = q_batches[k][j].Id => i = j
          /\ k < Len(q_batches) => Len(q_batches[k]) = 10
    /\ Len(Bodies(q_batches)) <= Len(missing)
    /\ Bodies(q_batches) = SubSeq(missing, 1, Len(Bodies(q_batches)))
    /\ (q_pc = "returned" /\ q_err = "none") => Bodies(q_batches) = missing
    /\ q_err = "RuntimeError" =>
          /\ q_pc = "raised"
          /\ Len(q_batches) = (batch_start \div 10) + 1
          /\ Len(sent) >= batch_start
          /\ SubSeq(sent, 1, batch_start) = SubSeq(missing, 1, batch_start)

\* the second batch of a list of 12 failed: the first 10 stay enqueued
C39_Witness ==
    /\ q_pc = "raised"
    /\ q_err = "RuntimeError"
    /\ Len(missing) = 12
    /\ batch_start = 10
    /\ Len(q_batches) = 2
    /\ Len(sent) = 10

\* C40: a body that is a bare video id, all digits or not, is taken as the
\* video id: the handler gets past the reading of the message and runs the
\* extraction for that id.
C40_BareIdAccepted ==
    (/\ h_body.form = "bare"
     /\ h_body.video_id \in {"v1", "11050592"}
     /\ h_pc \notin {"loads", "video_id"})
    => /\ h_err # "AttributeError"
       /\ h_video_id = h_body.video_id
       /\ h_pc \in {"target", "upload", "returned", "raised"}
====
